---- MODULE Spec2Model ----
(***************************************************************************)
(* The translation history store of vibelex: the persisted collection kept *)
(* under one chrome.storage.local key, the mutation API over it            *)
(* (historyManagement.ts), the storage helpers (historyStorage.ts) and the *)
(* history search (historySearch.ts).                                      *)
(*                                                                         *)
(* Every mutation is an asynchronous read-modify-write: the storage read   *)
(* and the storage write are two separate atomic steps at the storage, and *)
(* steps of calls made from different extension contexts interleave.       *)
(***************************************************************************)
EXTENDS Integers, Sequences, FiniteSets, TLC

\* ------------------------------------------------------------------ bounds

\* History API calls started in one behaviour.
MaxOps == 2
\* Longest id list handed to removeHistoryEntries.
MaxIdsLen == 2

\* ------------------------------------------------------------- the values

\* The extension contexts that call the history API (popup pages).
Contexts == {"popupA", "popupB"}

\* ParsedTranslation values handed to saveTranslation (SentenceTranslation
\* shape: text, translation and the two base language codes).
Translations ==
  { [text |-> "hello", translation |-> "xin chao",
     source_language_code |-> "en", translated_language_code |-> "vi"],
    [text |-> "bonjour", translation |-> "hello",
     source_language_code |-> "FR", translated_language_code |-> "en"] }

\* pinnedAt of an unpinned entry (the field is undefined in the code).
Unpinned == 0

\* A HistoryEntry.
HistoryEntry(id, timestamp, pinnedAt, translation) ==
  [id |-> id, timestamp |-> timestamp, pinnedAt |-> pinnedAt,
   translation |-> translation]

Ids(entries) == {entries[i].id : i \in 1..Len(entries)}

\* ---------------------------------------------------------- historyStorage

\* The comparator with the pinned entries ordered the other way round, the
\* most recently pinned first.
CompareEntriesLatestPinFirst(a, b) ==
  IF a.pinnedAt # Unpinned /\ b.pinnedAt = Unpinned THEN -1
  ELSE IF a.pinnedAt = Unpinned /\ b.pinnedAt # Unpinned THEN 1
  ELSE IF a.pinnedAt # Unpinned /\ b.pinnedAt # Unpinned
       THEN b.pinnedAt - a.pinnedAt
  ELSE b.timestamp - a.timestamp

\* The comparator of sortHistoryEntries: negative when a goes first.
\* A pinnedAt is truthy when it is set (and not 0).
CompareEntries(a, b) ==
  IF a.pinnedAt # Unpinned /\ b.pinnedAt = Unpinned THEN -1
  ELSE IF a.pinnedAt = Unpinned /\ b.pinnedAt # Unpinned THEN 1
  ELSE IF a.pinnedAt # Unpinned /\ b.pinnedAt # Unpinned
       THEN a.pinnedAt - b.pinnedAt
  ELSE b.timestamp - a.timestamp

\* Array.prototype.sort is stable: x goes after every element that does not
\* compare greater than it.
RECURSIVE InsertSorted(_, _)
InsertSorted(sorted, x) ==
  IF sorted = <<>> THEN <<x>>
  ELSE IF CompareEntries(Head(sorted), x) <= 0
       THEN <<Head(sorted)>> \o InsertSorted(Tail(sorted), x)
       ELSE <<x>> \o sorted

RECURSIVE StableSort(_, _)
StableSort(done, rest) ==
  IF rest = <<>> THEN done
  ELSE StableSort(InsertSorted(done, Head(rest)), Tail(rest))

sortHistoryEntries(entries) == StableSort(<<>>, entries)

\* ------------------------------------------------------------------ state

VARIABLES
  storage,   \* chrome.storage.local: is the history key there, and its value
  ctx,       \* per context: the call in flight and where it stands
  now,       \* the last value Date.now() returned
  nextId,    \* stands for crypto.randomUUID(): the next id never issued
  ops,       \* calls started so far
  ev,        \* history variable: the last storage step and its outcome
  screen,    \* HistoryScreen: the state its useState hooks hold
  hook       \* useTranslation: its result state

vars == <<storage, ctx, now, nextId, ops, ev, screen, hook>>

\* The key absent (the state of a fresh install, and after clearHistory).
AbsentKey == [has |-> FALSE, val |-> <<>>]

\* What is persisted, as a collection: nothing when the key is absent.
Persisted(store) == IF store.has THEN store.val ELSE <<>>

\* getHistory without its catch: a rejected get reaches the caller.
getHistoryNoCatch(store, readFails) ==
  IF readFails THEN [value |-> <<>>, threw |-> TRUE]
  ELSE [value |-> IF store.has THEN store.val ELSE <<>>, threw |-> FALSE]

\* getHistory: result[HISTORY_STORAGE_KEY] || [], and [] from the catch when
\* chrome.storage.local.get rejects. threw: does it raise to its caller.
getHistory(store, readFails) ==
  IF readFails THEN [value |-> <<>>, threw |-> FALSE]
  ELSE [value |-> IF store.has THEN store.val ELSE <<>>, threw |-> FALSE]

\* saveHistoryToStorage without the sort.
saveHistoryToStorageUnsorted(store, entries, writeFails) ==
  IF writeFails THEN [store |-> store, threw |-> FALSE]
  ELSE [store |-> [has |-> TRUE, val |-> entries], threw |-> FALSE]

\* saveHistoryToStorage that keeps the stored entries the caller did not
\* hand in, instead of overwriting the collection.
saveHistoryToStorageMerging(store, entries, writeFails) ==
  IF writeFails THEN [store |-> store, threw |-> FALSE]
  ELSE [store |->
          [has |-> TRUE,
           val |-> sortHistoryEntries(
                     entries \o SelectSeq(Persisted(store),
                                          LAMBDA e : e.id \notin Ids(entries)))],
        threw |-> FALSE]

\* saveHistoryToStorage: chrome.storage.local.set of the sorted entries; a
\* rejected set is caught and logged, and the stored value stays as it was.
saveHistoryToStorage(store, entries, writeFails) ==
  IF writeFails THEN [store |-> store, threw |-> FALSE]
  ELSE [store |-> [has |-> TRUE, val |-> sortHistoryEntries(entries)],
        threw |-> FALSE]

\* ------------------------------------------------------- historyManagement

\* saveTranslation with the id taken from the number of entries read.
saveTranslationCountingId(entries, id, timestamp, translation) ==
  sortHistoryEntries(<<HistoryEntry(Len(entries) + 1, timestamp, Unpinned,
                                    translation)>> \o entries)

\* saveTranslation that keeps the two first entries only.
saveTranslationCapped(entries, id, timestamp, translation) ==
  LET all == sortHistoryEntries(
               <<HistoryEntry(id, timestamp, Unpinned, translation)>>
                 \o entries)
  IN  SubSeq(all, 1, IF Len(all) < 2 THEN Len(all) ELSE 2)

\* saveTranslation that puts the new entry behind the entries read.
saveTranslationAppending(entries, id, timestamp, translation) ==
  sortHistoryEntries(
    entries \o <<HistoryEntry(id, timestamp, Unpinned, translation)>>)

\* saveTranslation, between its read and its write: the new entry (no
\* pinnedAt) put in front of the entries read, sorted.
saveTranslation(entries, id, timestamp, translation) ==
  sortHistoryEntries(
    <<HistoryEntry(id, timestamp, Unpinned, translation)>> \o entries)

\* removeHistoryEntry by splice(findIndex(...), 1): with no entry of that
\* id, findIndex is -1 and the last entry goes.
removeHistoryEntrySplice(entries, id) ==
  IF id \in Ids(entries) THEN SelectSeq(entries, LAMBDA e : e.id # id)
  ELSE SubSeq(entries, 1, Len(entries) - 1)

\* removeHistoryEntry: entries.filter(entry => entry.id !== id)
removeHistoryEntry(entries, id) ==
  SelectSeq(entries, LAMBDA e : e.id # id)

\* removeHistoryEntries that looks at the first id only.
removeHistoryEntriesFirstOnly(entries, ids) ==
  IF ids = <<>> THEN entries
  ELSE SelectSeq(entries, LAMBDA e : e.id # ids[1])

\* removeHistoryEntries: entries.filter(entry => !idsSet.has(entry.id))
removeHistoryEntries(entries, ids) ==
  LET idsSet == {ids[i] : i \in 1..Len(ids)}
  IN  SelectSeq(entries, LAMBDA e : e.id \notin idsSet)

\* removeHistoryEntries as a loop of single removals.
removeHistoryEntriesRoundsPerId(ids) ==
  IF ids = <<>> THEN <<ids>> ELSE [i \in 1..Len(ids) |-> <<ids[i]>>]

\* The id lists removeHistoryEntries works through, one read and one
\* saveHistoryToStorage call each: the whole list, in a single round.
removeHistoryEntriesRounds(ids) == <<ids>>

\* togglePinEntry that also stamps the entry with the time of the toggle.
togglePinEntryStamping(entries, id, timestamp) ==
  [i \in 1..Len(entries) |->
     IF entries[i].id = id
     THEN [entries[i] EXCEPT
             !.pinnedAt = IF @ = Unpinned THEN timestamp ELSE Unpinned,
             !.timestamp = timestamp]
     ELSE entries[i]]

\* togglePinEntry that pins and never unpins.
togglePinEntryPinning(entries, id, timestamp) ==
  [i \in 1..Len(entries) |->
     IF entries[i].id = id
     THEN [entries[i] EXCEPT !.pinnedAt = timestamp]
     ELSE entries[i]]

\* togglePinEntry: pinnedAt of the entry with that id becomes Date.now() when
\* it was unset and undefined when it was set; the other entries are kept.
togglePinEntry(entries, id, timestamp) ==
  [i \in 1..Len(entries) |->
     IF entries[i].id = id
     THEN [entries[i] EXCEPT
             !.pinnedAt = IF @ = Unpinned THEN timestamp ELSE Unpinned]
     ELSE entries[i]]

\* clearHistory that keeps the pinned entries.
clearHistoryKeepingPinned(store, removeFails) ==
  IF removeFails THEN [store |-> store, threw |-> FALSE]
  ELSE [store |-> [has |-> TRUE,
                   val |-> SelectSeq(Persisted(store),
                                     LAMBDA e : e.pinnedAt # Unpinned)],
        threw |-> FALSE]

\* clearHistory without its catch.
clearHistoryNoCatch(store, removeFails) ==
  IF removeFails THEN [store |-> store, threw |-> TRUE]
  ELSE [store |-> AbsentKey, threw |-> FALSE]

\* clearHistory: chrome.storage.local.remove of the key; a rejected remove is
\* caught and logged.
clearHistory(store, removeFails) ==
  IF removeFails THEN [store |-> store, threw |-> FALSE]
  ELSE [store |-> AbsentKey, threw |-> FALSE]

\* ------------------------------------------------------------ the calls

NoTranslation ==
  [text |-> "", translation |-> "",
   source_language_code |-> "", translated_language_code |-> ""]

\* The argument of a call: the translation (save) or the id (remove,
\* togglePin). The id list of removeMany is kept as the set of ids it names
\* (targets).
Arg(t, id) == [t |-> t, id |-> id]
NoArg == Arg(NoTranslation, 0)

Idle ==
  [pc |-> "idle", op |-> "none", arg |-> NoArg, updated |-> <<>>,
   snapshot |-> <<>>, rest |-> <<>>, rfail |-> FALSE, dirty |-> FALSE,
   missed |-> {}, newId |-> 0, ts |-> 0, rep |-> FALSE, origin |-> <<>>,
   targets |-> {}, seq |-> {}, reads |-> 0, writes |-> 0]

\* What getLanguageAnalysis returns of no entries.
NoAnalysis ==
  [sourceLanguages |-> <<>>, targetLanguages |-> <<>>, totalEntries |-> 0]

\* HistoryScreen as its useState calls leave it: an empty search box, no
\* displayed entries, no selection; its effects have not run (mounted).
Unmounted ==
  [mounted |-> FALSE, searchQuery |-> "", debouncedSearchQuery |-> "",
   entries |-> <<>>, selectedEntries |-> {}]

\* An optional value of the hook's result: undefined, or set.
Undefined == [has |-> FALSE, val |-> NoTranslation]

\* useTranslation's initial result; pc is where the translateText call in
\* flight stands.
NoResult ==
  [text |-> "", translation |-> Undefined, loading |-> FALSE,
   error |-> [has |-> FALSE, code |-> ""], pc |-> "idle"]

\* ev: the last storage step (step) and the call it belongs to (op, arg); a
\* load keeps the record of the call before it and adds its own outcome.
\*   fail      the storage call of this step failed
\*   rfail     the call's read failed
\*   threw     the call raised to its caller
\*   done      the call is over
\*   before    what was persisted before the step
\*   snapshot  what the call had read
\*   dirty     another context wrote between the call's read and this step
\*   missed    the ids of the entries those writes saved
\*   newId, ts the id and the Date.now() the call drew
\*   rep       the call before it was the same call, and ran right before it
\*   origin    what was persisted before that call, when rep
\*   targets   the ids a removeMany names
\*   seq       what single remove calls for those ids would leave, run one
\*             after the other on what was persisted, for every order
\*   reads, writes   the storage reads and writes the call has made
\*   query, tokens   the query of a search, and the operator tokens it
\*             was written from
\*   pieces    the operator tokens and the words the query was written from
\*   parsed    what parseSearchOperators returned, when the search called it
\*   loaded    a load ran last: what it followed (prev), did its read fail
\*             (lfail), what it returned (result)
\*   analysis  what an analyze returned; prev is the step it followed
\*   fields    what extractSearchableFields returned
NoEvent ==
  [op |-> "none", arg |-> NoArg, step |-> "none",
   fail |-> FALSE, rfail |-> FALSE, threw |-> FALSE, done |-> FALSE,
   before |-> <<>>, snapshot |-> <<>>, dirty |-> FALSE,
   missed |-> {}, newId |-> 0, ts |-> 0, rep |-> FALSE, origin |-> <<>>,
   targets |-> {}, seq |-> {}, reads |-> 0, writes |-> 0,
   loaded |-> FALSE, prev |-> "none", lfail |-> FALSE, result |-> <<>>,
   query |-> "", tokens |-> <<>>, pieces |-> <<>>,
   parsed |-> [called |-> FALSE, operators |-> <<>>, remainingText |-> ""],
   analysis |-> NoAnalysis, fields |-> <<>>]

\* The call ran alone and no storage call of it failed.
Clean(e) == ~e.fail /\ ~e.rfail /\ ~e.dirty

\* Collections the store holds after a few earlier calls, each with the clock
\* and the next fresh id of that moment: the key absent (a fresh install);
\* two saves at different times; two saves within the same millisecond and
\* the first entry pinned later; two saves within the same millisecond.
SeedTranslation(n) ==
  CHOOSE t \in Translations :
    t.source_language_code = (IF n = 1 THEN "en" ELSE "FR")

InitialStores ==
  { [store |-> AbsentKey, now |-> 1, nextId |-> 1],
    [store |-> [has |-> TRUE, val |->
                 << HistoryEntry(2, 2, Unpinned, SeedTranslation(2)),
                    HistoryEntry(1, 1, Unpinned, SeedTranslation(1)) >>],
     now |-> 2, nextId |-> 3],
    [store |-> [has |-> TRUE, val |->
                 << HistoryEntry(1, 1, 2, SeedTranslation(1)),
                    HistoryEntry(2, 1, Unpinned, SeedTranslation(1)) >>],
     now |-> 2, nextId |-> 3],
    [store |-> [has |-> TRUE, val |->
                 << HistoryEntry(2, 1, Unpinned, SeedTranslation(2)),
                    HistoryEntry(1, 1, Unpinned, SeedTranslation(1)) >>],
     now |-> 1, nextId |-> 3] }

Init ==
  /\ \E s \in InitialStores :
       /\ storage = s.store
       /\ now = s.now
       /\ nextId = s.nextId
  /\ ctx = [c \in Contexts |-> Idle]
  /\ ops = 0
  /\ screen = Unmounted
  /\ hook = NoResult
  /\ ev = NoEvent

\* Date.now(): the clock has not moved since the last call, or it has.
Clock == {now, now + 1}

\* Ids a caller can name: those of the entries now persisted, the id the last
\* call named (a caller may repeat its call), and 0, which is never issued. A
\* call reads as it starts, and an id that is not persisted then is, to the
\* call, like any other such id: 0 stands for the rest of them.
KnownIds == Ids(Persisted(storage)) \cup {ev.arg.id} \cup {0}

IdLists ==
  UNION {[1..n -> KnownIds] : n \in 0..MaxIdsLen}

\* remove(id) run to its end, alone and with no storage failure, on a store
\* holding entries: what is persisted afterwards.
RemoveCall(entries, id) ==
  Persisted(
    saveHistoryToStorage([has |-> TRUE, val |-> entries],
                         removeHistoryEntry(getHistory(
                           [has |-> TRUE, val |-> entries], FALSE).value, id),
                         FALSE).store)

RECURSIVE RemoveCalls(_, _)
RemoveCalls(entries, ids) ==
  IF ids = <<>> THEN entries
  ELSE RemoveCalls(RemoveCall(entries, Head(ids)), Tail(ids))

\* The orders in which the ids of a list can be handed to single calls.
RECURSIVE Orders(_)
Orders(ids) ==
  IF Len(ids) <= 1 THEN {ids}
  ELSE UNION { { <<ids[i]>> \o o :
                 o \in Orders(SubSeq(ids, 1, i - 1)
                              \o SubSeq(ids, i + 1, Len(ids))) } :
               i \in 1..Len(ids) }

\* The read half of a mutation: getHistory, then the update (updated) the
\* call computed from what it returned; the write is the next step. Were getHistory to raise,
\* the caller's catch would end the call there.
ReadStep(c, op, arg, ids, rf, updated, newId, ts, rest, first) ==
  LET got == getHistory(storage, rf)
      me  == ctx[c]
      reads == IF first THEN 1 ELSE me.reads + 1
      writes == IF first THEN 0 ELSE me.writes
      rep == /\ ev.step = "write" /\ ev.done /\ Clean(ev)
             /\ ev.op = op /\ ev.arg = arg /\ ~rf
      targets == IF first THEN {ids[i] : i \in 1..Len(ids)} ELSE me.targets
      seq == IF ~first THEN me.seq
             ELSE IF rf THEN {}
             ELSE {RemoveCalls(Persisted(storage), o) : o \in Orders(ids)}
      call == [op |-> op, arg |-> arg, rfail |-> rf, dirty |-> FALSE,
               missed |-> {}, newId |-> newId, ts |-> ts, rep |-> rep,
               origin |-> IF rep THEN ev.before ELSE <<>>,
               targets |-> targets, seq |-> seq,
               snapshot |-> got.value, reads |-> reads, writes |-> writes]
  IN  /\ ctx' = [ctx EXCEPT ![c] =
           IF got.threw THEN Idle
           ELSE call @@ [pc |-> "write", updated |-> updated,
                         rest |-> rest]]
      /\ ev' = call @@ [step |-> "read", fail |-> rf, threw |-> FALSE,
                        done |-> got.threw, before |-> Persisted(storage),
                        loaded |-> FALSE, prev |-> "none", lfail |-> FALSE,
                        result |-> <<>>, query |-> "", tokens |-> <<>>,
                        pieces |-> <<>>, parsed |-> NoEvent.parsed,
                        analysis |-> NoAnalysis, fields |-> <<>>]
      /\ UNCHANGED <<storage, screen, hook>>

\* saveTranslation(translation), up to its await of saveHistoryToStorage.
SaveRead(c, t, rf) ==
  /\ ctx[c].pc = "idle"
  /\ ops < MaxOps
  /\ \E ts \in Clock :
       /\ now' = ts
       /\ ReadStep(c, "save", Arg(t, 0), <<>>, rf,
                   saveTranslation(getHistory(storage, rf).value, nextId, ts, t),
                   nextId, ts, <<>>, TRUE)
  /\ nextId' = nextId + 1
  /\ ops' = ops + 1

\* removeHistoryEntry(id), up to its await of saveHistoryToStorage.
RemoveRead(c, id, rf) ==
  /\ ctx[c].pc = "idle"
  /\ ops < MaxOps
  /\ ReadStep(c, "remove", Arg(NoTranslation, id), <<>>, rf,
              removeHistoryEntry(getHistory(storage, rf).value, id),
              0, 0, <<>>, TRUE)
  /\ ops' = ops + 1
  /\ UNCHANGED <<now, nextId>>

\* removeHistoryEntries(ids), up to its await of saveHistoryToStorage (and,
\* had it more than one round, each further round's read).
RemoveManyRead(c, ids, rf) ==
  LET me == ctx[c]
      first == me.pc = "idle"
      rounds == IF first THEN removeHistoryEntriesRounds(ids) ELSE me.rest
  IN  /\ me.pc \in {"idle", "again"}
      /\ IF first THEN ops < MaxOps /\ ops' = ops + 1
                  ELSE ids = Head(rounds) /\ ops' = ops
      /\ ReadStep(c, "removeMany", NoArg, ids, rf,
                  removeHistoryEntries(getHistory(storage, rf).value,
                                       Head(rounds)),
                  0, 0, Tail(rounds), first)
      /\ UNCHANGED <<now, nextId>>

\* togglePinEntry(id), up to its await of saveHistoryToStorage.
TogglePinRead(c, id, rf) ==
  /\ ctx[c].pc = "idle"
  /\ ops < MaxOps
  /\ \E ts \in Clock :
       /\ now' = ts
       /\ ReadStep(c, "togglePin", Arg(NoTranslation, id), <<>>, rf,
                   togglePinEntry(getHistory(storage, rf).value, id, ts),
                   0, ts, <<>>, TRUE)
  /\ ops' = ops + 1
  /\ UNCHANGED nextId

\* Another context's successful write lands between a call's read and its
\* own write: the call's snapshot is stale from then on.
Stale(c, savedId) ==
  [d \in Contexts |->
     IF d # c /\ ctx[d].pc = "write"
     THEN [ctx[d] EXCEPT
             !.dirty = TRUE,
             !.missed = @ \cup (IF savedId = 0 THEN {} ELSE {savedId})]
     ELSE ctx[d]]

\* The write half of save, remove, removeMany and togglePin: the await of
\* saveHistoryToStorage(updatedEntries). The caller's own try/catch lets
\* nothing out.
Write(c, wf) ==
  LET me  == ctx[c]
      out == saveHistoryToStorage(storage, me.updated, wf)
      more == me.rest # <<>>
  IN  /\ me.pc = "write"
      /\ storage' = out.store
      /\ ctx' = [IF wf THEN ctx ELSE Stale(c, me.newId) EXCEPT ![c] =
           IF more
           THEN [me EXCEPT !.pc = "again", !.writes = @ + 1]
           ELSE Idle]
      /\ ev' = [op |-> me.op, arg |-> me.arg, step |-> "write",
                fail |-> wf, rfail |-> me.rfail, threw |-> FALSE,
                done |-> ~more, before |-> Persisted(storage),
                snapshot |-> me.snapshot,
                dirty |-> me.dirty, missed |-> me.missed,
                newId |-> me.newId, ts |-> me.ts, rep |-> me.rep,
                origin |-> me.origin,
                targets |-> me.targets, seq |-> me.seq,
                reads |-> me.reads, writes |-> me.writes + 1,
                loaded |-> FALSE, prev |-> "none", lfail |-> FALSE,
                result |-> <<>>, query |-> "", tokens |-> <<>>,
                pieces |-> <<>>, parsed |-> NoEvent.parsed,
                analysis |-> NoAnalysis, fields |-> <<>>]
      /\ UNCHANGED <<now, nextId, ops, screen, hook>>

\* clearHistory(): one storage call, no read.
Clear(c, wf) ==
  LET out == clearHistory(storage, wf)
  IN  /\ ctx[c].pc = "idle"
      /\ ops < MaxOps
      /\ ops' = ops + 1
      /\ storage' = out.store
      /\ ctx' = IF wf THEN ctx ELSE Stale(c, 0)
      /\ ev' = [NoEvent EXCEPT !.op = "clear", !.step = "clear",
                               !.fail = wf, !.threw = out.threw,
                               !.done = TRUE,
                               !.before = Persisted(storage), !.writes = 1]
      /\ UNCHANGED <<now, nextId, screen, hook>>

\* load(): a direct call of getHistory.
Load(c, rf) ==
  LET got == getHistory(storage, rf)
  IN  /\ ctx[c].pc = "idle"
      /\ ops < MaxOps
      /\ ops' = ops + 1
      /\ ev' = [ev EXCEPT !.loaded = TRUE,
                          !.prev = IF ev.loaded THEN "load" ELSE ev.step,
                          !.step = "load", !.lfail = rf,
                          !.threw = got.threw, !.result = got.value]
      /\ UNCHANGED <<storage, ctx, now, nextId, screen, hook>>

\* ------------------------------------------ the store, concurrent callers

\* A new call is made from a free context. A context keeps nothing between
\* calls, so free contexts are interchangeable and one of them stands for
\* all.
Free == {c \in Contexts : ctx[c].pc = "idle"}
Callers == IF Free = {} THEN {} ELSE {CHOOSE c \in Free : TRUE}
Resuming == {c \in Contexts : ctx[c].pc = "again"}

\* Calls from the contexts interleave at their storage steps; no storage call
\* fails.
Next ==
  \/ \E c \in Callers, t \in Translations : SaveRead(c, t, FALSE)
  \/ \E c \in Callers, id \in KnownIds : RemoveRead(c, id, FALSE)
  \/ \E c \in Callers \cup Resuming, ids \in IdLists :
       RemoveManyRead(c, ids, FALSE)
  \/ \E c \in Callers, id \in KnownIds : TogglePinRead(c, id, FALSE)
  \/ \E c \in Contexts : Write(c, FALSE)
  \/ \E c \in Callers : Clear(c, FALSE)

Spec == Init /\ [][Next]_vars

\* ------------------------------------------------------------ historySearch

\* Most operator tokens in a query.
MaxTokens == 2

Char(s, i) == SubSeq(s, i, i)
Least(S) == CHOOSE x \in S : \A y \in S : x <= y
Greatest(S) == CHOOSE x \in S : \A y \in S : x >= y

UpperCase == "ABCDEFGHIJKLMNOPQRSTUVWXYZ"
LowerCase == "abcdefghijklmnopqrstuvwxyz"
Digits == "0123456789"
Chars(s) == {Char(s, k) : k \in 1..Len(s)}
Letters == Chars(UpperCase) \cup Chars(LowerCase)
IsLetter(c) == c \in Letters

\* String.prototype.toLowerCase
Lowered ==
  [c \in Chars(UpperCase) |->
     Char(LowerCase, CHOOSE k \in 1..Len(UpperCase) : Char(UpperCase, k) = c)]

LowerChar(c) == IF c \in DOMAIN Lowered THEN Lowered[c] ELSE c

RECURSIVE toLowerCase(_)
toLowerCase(s) ==
  IF Len(s) = 0 THEN ""
  ELSE LowerChar(Char(s, 1)) \o toLowerCase(SubSeq(s, 2, Len(s)))

\* String.prototype.trim
WhiteSpace == {" ", "\t"}

RECURSIVE trimStart(_)
trimStart(s) ==
  IF Len(s) > 0 /\ Char(s, 1) \in WhiteSpace
  THEN trimStart(SubSeq(s, 2, Len(s)))
  ELSE s

RECURSIVE trimEnd(_)
trimEnd(s) ==
  IF Len(s) > 0 /\ Char(s, Len(s)) \in WhiteSpace
  THEN trimEnd(SubSeq(s, 1, Len(s) - 1))
  ELSE s

trim(s) == trimEnd(trimStart(s))

\* String.prototype.replace(pattern, "") with a string pattern: the first
\* occurrence goes.
replaceFirst(s, pattern) ==
  LET n  == Len(pattern)
      at == {k \in 1..(Len(s) - n + 1) : SubSeq(s, k, k + n - 1) = pattern}
  IN  IF at = {} THEN s
      ELSE SubSeq(s, 1, Least(at) - 1)
             \o SubSeq(s, Least(at) + n, Len(s))

\* SEARCH_OPERATOR_REGEX, /\b(source|target):([a-zA-Z-]+)\b/gi.
\* \b: a word character on one side of the gap after position i only.
WordChars == Letters \cup Chars(Digits) \cup {"_"}
IsWordChar(c) == c \in WordChars
WordAt(s, i) == i >= 1 /\ i <= Len(s) /\ IsWordChar(Char(s, i))
Boundary(s, i) == WordAt(s, i) # WordAt(s, i + 1)
IsCodeChar(c) == IsLetter(c) \/ c = "-"

\* The last position of the run of code characters that starts at j.
RECURSIVE CodeRun(_, _)
CodeRun(s, j) ==
  IF j <= Len(s) /\ IsCodeChar(Char(s, j)) THEN CodeRun(s, j + 1) ELSE j - 1

\* Where the match that starts at position i ends; 0 when none starts there.
\* The code is matched greedily and given back until \b holds.
MatchEnd(s, i) ==
  IF i + 7 > Len(s) THEN 0
  ELSE IF ~Boundary(s, i - 1)
          \/ toLowerCase(SubSeq(s, i, i + 6)) \notin {"source:", "target:"}
       THEN 0
  ELSE LET ends == {e \in (i + 7)..CodeRun(s, i + 7) : Boundary(s, e)}
       IN  IF ends = {} THEN 0 ELSE Greatest(ends)

\* SEARCH_OPERATOR_REGEX.exec(s) with lastIndex at from - 1: the leftmost
\* match at or after from, with its groups.
Exec(s, from) ==
  LET starts == {i \in from..Len(s) : MatchEnd(s, i) # 0}
  IN  IF starts = {}
      THEN [found |-> FALSE, last |-> 0, text |-> "", type |-> "",
            code |-> ""]
      ELSE LET i == Least(starts)
               e == MatchEnd(s, i)
           IN  [found |-> TRUE, last |-> e, text |-> SubSeq(s, i, e),
                type |-> SubSeq(s, i, i + 5), code |-> SubSeq(s, i + 7, e)]

\* The while loop of parseSearchOperators.
RECURSIVE ParseLoop(_, _, _, _)
ParseLoop(query, from, operators, remainingText) ==
  LET match == Exec(query, from)
  IN  IF ~match.found
      THEN [operators |-> operators, remainingText |-> remainingText]
      ELSE ParseLoop(query, match.last + 1,
                     Append(operators, [type |-> toLowerCase(match.type),
                                        value |-> toLowerCase(match.code)]),
                     trim(replaceFirst(remainingText, match.text)))

parseSearchOperators(query) == ParseLoop(query, 1, <<>>, query)

\* The filter callback of searchHistory with language codes compared as
\* they are stored.
PassesOperatorsAsStored(entry, operators) ==
  \A k \in 1..Len(operators) :
    /\ operators[k].type = "source" =>
         entry.translation.source_language_code = operators[k].value
    /\ operators[k].type = "target" =>
         entry.translation.translated_language_code = operators[k].value

\* The filter callback of searchHistory with the operators merged by type:
\* of the operators of one type, the last one written counts.
PassesOperatorsLastOfType(entry, operators) ==
  \A k \in 1..Len(operators) :
    (\A j \in (k + 1)..Len(operators) : operators[j].type # operators[k].type)
      => /\ operators[k].type = "source" =>
              toLowerCase(entry.translation.source_language_code)
                = operators[k].value
         /\ operators[k].type = "target" =>
              toLowerCase(entry.translation.translated_language_code)
                = operators[k].value

\* The filter callback of searchHistory: every operator holds of the entry.
PassesOperators(entry, operators) ==
  \A k \in 1..Len(operators) :
    /\ operators[k].type = "source" =>
         toLowerCase(entry.translation.source_language_code)
           = operators[k].value
    /\ operators[k].type = "target" =>
         toLowerCase(entry.translation.translated_language_code)
           = operators[k].value

\* fuse.search(searchTerm) mapped to its items: some of the filtered
\* entries, each once, in the order of Fuse's ranking.
FuseResults(filteredEntries) ==
  LET items == {filteredEntries[i] : i \in 1..Len(filteredEntries)}
  IN  {r \in UNION {[1..n -> items] : n \in 0..Len(filteredEntries)} :
         \A i, j \in 1..Len(r) : i # j => r[i] # r[j]}

\* searchHistory that finds nothing for a blank query.
searchHistoryBlankFindsNothing(entries, query) ==
  IF trim(query) = "" THEN {<<>>}
  ELSE LET parsed == parseSearchOperators(query)
           filteredEntries ==
             SelectSeq(entries,
                       LAMBDA e : PassesOperators(e, parsed.operators))
       IN  IF toLowerCase(parsed.remainingText) # ""
           THEN FuseResults(filteredEntries)
           ELSE {filteredEntries}

\* searchHistory that hands every entry read to Fuse, filtered or not.
searchHistoryFuseOverAll(entries, query) ==
  IF trim(query) = "" THEN {entries}
  ELSE LET parsed == parseSearchOperators(query)
           filteredEntries ==
             SelectSeq(entries,
                       LAMBDA e : PassesOperators(e, parsed.operators))
       IN  IF toLowerCase(parsed.remainingText) # ""
           THEN FuseResults(entries)
           ELSE {filteredEntries}

\* searchHistory, after its getHistory: the results it can return.
searchHistory(entries, query) ==
  IF trim(query) = "" THEN {entries}
  ELSE LET parsed == parseSearchOperators(query)
           searchTerm == toLowerCase(parsed.remainingText)
           filteredEntries ==
             SelectSeq(entries,
                       LAMBDA e : PassesOperators(e, parsed.operators))
       IN  IF searchTerm # "" THEN FuseResults(filteredEntries)
           ELSE {filteredEntries}

\* searchHistory writing the entries it found back to the storage.
SearchStoringResult(c, q, rf) ==
  LET got == getHistory(storage, rf)
  IN  /\ ctx[c].pc = "idle"
      /\ ops < MaxOps
      /\ ops' = ops + 1
      /\ \E result \in searchHistory(got.value, q.text) :
           /\ ev' = [NoEvent EXCEPT
                       !.op = "search", !.step = "search",
                       !.query = q.text, !.tokens = q.tokens,
                       !.pieces = q.pieces, !.lfail = rf,
                       !.before = Persisted(storage), !.reads = 1,
                       !.result = result]
           /\ storage' = saveHistoryToStorage(storage, result, FALSE).store
      /\ UNCHANGED <<ctx, now, nextId, screen, hook>>

\* searchHistory(query): one storage read, no write. q.text is the query;
\* q.tokens and q.pieces record what it was written from.
Search(c, q, rf) ==
  LET got == getHistory(storage, rf)
  IN  /\ ctx[c].pc = "idle"
      /\ ops < MaxOps
      /\ ops' = ops + 1
      /\ \E result \in searchHistory(got.value, q.text) :
           ev' = [NoEvent EXCEPT
                    !.op = "search", !.step = "search", !.query = q.text,
                    !.tokens = q.tokens, !.pieces = q.pieces,
                    !.parsed =
                      IF trim(q.text) = "" THEN NoEvent.parsed
                      ELSE [called |-> TRUE] @@ parseSearchOperators(q.text),
                    !.fail = rf, !.lfail = rf,
                    !.threw = got.threw, !.done = TRUE,
                    !.before = Persisted(storage), !.reads = 1,
                    !.result = IF got.threw THEN <<>> ELSE result]
      /\ UNCHANGED <<storage, ctx, now, nextId, screen, hook>>

\* -------------------------------------------------- searching a stored
\* collection

SearchTranslation(source, target) ==
  [text |-> "hello", translation |-> "xin chao",
   source_language_code |-> source, translated_language_code |-> target]

\* Entries as earlier saves and pins leave them.
StoredEntries ==
  { HistoryEntry(1, 1, Unpinned, SearchTranslation("en", "vi")),
    HistoryEntry(2, 2, Unpinned, SearchTranslation("FR", "en")),
    HistoryEntry(3, 3, 4, SearchTranslation("en", "zh-TW")),
    HistoryEntry(4, 4, Unpinned, SearchTranslation("fr", "vi")) }

\* A set of entries in the order saveHistoryToStorage leaves.
RECURSIVE Stored(_)
Stored(S) ==
  IF S = {} THEN <<>>
  ELSE LET e == CHOOSE x \in S : TRUE
       IN  sortHistoryEntries(<<e>> \o Stored(S \ {e}))

SearchStores ==
  {AbsentKey} \cup
  {[has |-> TRUE, val |-> Stored(S)] : S \in SUBSET StoredEntries}

\* Operator tokens as a user writes them.
Tokens ==
  { [key |-> "source", code |-> "en"], [key |-> "SOURCE", code |-> "FR"],
    [key |-> "target", code |-> "vi"], [key |-> "Target", code |-> "zh-tw"],
    [key |-> "source", code |-> "de"] }

TokenText(token) == token.key \o ":" \o token.code

RECURSIVE Join(_)
Join(tokens) ==
  IF Len(tokens) = 1 THEN TokenText(tokens[1])
  ELSE TokenText(tokens[1]) \o " " \o Join(Tail(tokens))

TokenLists == UNION {[1..n -> Tokens] : n \in 1..MaxTokens}

\* A word of free text, as a piece of a query: it has no operator key.
Word(w) == [key |-> "", code |-> w]

PieceText(piece) == IF piece.key = "" THEN piece.code ELSE TokenText(piece)

RECURSIVE JoinPieces(_)
JoinPieces(pieces) ==
  IF Len(pieces) = 1 THEN PieceText(pieces[1])
  ELSE PieceText(pieces[1]) \o " " \o JoinPieces(Tail(pieces))

\* Queries with free text: words before, between and after operators, an
\* operator written twice, words that look like operators of another type.
MixedQueries ==
  { <<Word("hello")>>,
    <<Word("plain"), Word("text")>>,
    <<[key |-> "source", code |-> "en"], Word("hello")>>,
    <<[key |-> "source", code |-> "en"], Word("hello"), Word("world")>>,
    <<Word("hello"), [key |-> "Target", code |-> "VI"], Word("world")>>,
    <<[key |-> "source", code |-> "en"], [key |-> "source", code |-> "en"],
      Word("hi")>>,
    <<Word("lang:en"), [key |-> "SOURCE", code |-> "zh-TW"]>>,
    <<Word("resource:en")>>,
    <<Word("resource:en"), [key |-> "source", code |-> "en"]>> }

\* Queries made of operator tokens only, bare and with blanks around; the
\* blank queries; queries with free text.
Queries ==
  {[text |-> Join(l), tokens |-> l, pieces |-> l] : l \in TokenLists}
  \cup {[text |-> " " \o Join(l) \o "  ", tokens |-> l, pieces |-> l] :
          l \in TokenLists}
  \cup {[text |-> s, tokens |-> <<>>, pieces |-> <<>>] :
          s \in {"", " ", "\t "}}
  \cup {[text |-> JoinPieces(p), tokens |-> <<>>, pieces |-> p] :
          p \in MixedQueries}

\* A stored collection, and a query in the search box.
SearchInit ==
  /\ storage \in SearchStores
  /\ now = 4
  /\ nextId = 5
  /\ ctx = [c \in Contexts |-> Idle]
  /\ ops = 0
  /\ screen = Unmounted
  /\ hook = NoResult
  /\ \E q \in Queries :
       ev = [NoEvent EXCEPT !.query = q.text, !.tokens = q.tokens,
                            !.pieces = q.pieces]

\* The query in the box is searched.
SearchNext ==
  \E c \in Callers, rf \in BOOLEAN :
    Search(c, [text |-> ev.query, tokens |-> ev.tokens,
               pieces |-> ev.pieces], rf)

SearchSpec == SearchInit /\ [][SearchNext]_vars

\* --------------------------------------------------------- historyAnalysis

\* Significant bits of a Number (IEEE 754 double).
Precision == 53
\* Natural numbers of any size are written in limbs of Limb bits, the lowest
\* first and the highest not 0; zero is <<>>.
Limb == 15
Base == 2^Limb
\* Limbs of fraction a division works out before it rounds: enough for a
\* quotient of 1/32 and more.
DivisionLimbs == 4

RECURSIVE LimbsOf(_)
LimbsOf(n) == IF n = 0 THEN <<>> ELSE <<n % Base>> \o LimbsOf(n \div Base)

RECURSIVE Normal(_)
Normal(a) ==
  IF a # <<>> /\ a[Len(a)] = 0 THEN Normal(SubSeq(a, 1, Len(a) - 1)) ELSE a

LimbAt(a, i) == IF i <= Len(a) THEN a[i] ELSE 0

RECURSIVE AddLimbs(_, _, _)
AddLimbs(a, b, carry) ==
  IF a = <<>> /\ b = <<>> THEN LimbsOf(carry)
  ELSE LET sum == LimbAt(a, 1) + LimbAt(b, 1) + carry
       IN  <<sum % Base>> \o AddLimbs(IF a = <<>> THEN a ELSE Tail(a),
                                      IF b = <<>> THEN b ELSE Tail(b),
                                      sum \div Base)

Plus(a, b) == AddLimbs(a, b, 0)

\* a * k + carry, for k < Base
RECURSIVE TimesLimbs(_, _, _)
TimesLimbs(a, k, carry) ==
  IF a = <<>> THEN LimbsOf(carry)
  ELSE <<(Head(a) * k + carry) % Base>>
         \o TimesLimbs(Tail(a), k, (Head(a) * k + carry) \div Base)

Times(a, k) == IF k = 0 THEN <<>> ELSE TimesLimbs(a, k, 0)

\* a < b
Less(a, b) ==
  IF Len(a) # Len(b) THEN Len(a) < Len(b)
  ELSE \E i \in 1..Len(a) :
         a[i] < b[i] /\ \A j \in (i + 1)..Len(a) : a[j] = b[j]

BitLength(a) ==
  IF a = <<>> THEN 0
  ELSE Limb * (Len(a) - 1) + Least({k \in 1..Limb : a[Len(a)] < 2^k})

\* Bit k of a, bit 1 the lowest.
BitAt(a, k) == (LimbAt(a, ((k - 1) \div Limb) + 1) \div 2^((k - 1) % Limb)) % 2

\* a * 2^k
ShiftLeft(a, k) == [i \in 1..(k \div Limb) |-> 0] \o Times(a, 2^(k % Limb))

\* floor(a / 2^k)
ShiftRight(a, k) ==
  LET whole == k \div Limb
      bits == k % Limb
  IN  Normal([i \in 1..(Len(a) - whole) |->
                (a[whole + i] \div 2^bits)
                  + (LimbAt(a, whole + i + 1) % 2^bits) * 2^(Limb - bits)])

\* a is not a multiple of 2^k
LowBits(a, k) == \E i \in 1..k : BitAt(a, i) = 1

\* A positive Number: the integer m of Precision bits, times 2^e.
\* Round to nearest, ties to even: the natural number a times 2^e, inexact
\* below its lowest bit when sticky, as a Number.
RoundToNumber(a, e, sticky) ==
  LET drop == BitLength(a) - Precision
  IN  IF drop <= 0
      THEN [m |-> ShiftLeft(a, -drop), e |-> e + drop]
      ELSE LET kept == ShiftRight(a, drop)
               half == BitAt(a, drop) = 1
               below == sticky \/ LowBits(a, drop - 1)
               up == half /\ (below \/ BitAt(kept, 1) = 1)
               m == IF up THEN Plus(kept, <<1>>) ELSE kept
           IN  IF BitLength(m) > Precision
               THEN [m |-> ShiftRight(m, 1), e |-> e + drop + 1]
               ELSE [m |-> m, e |-> e + drop]

\* The limbs of floor(r * Base^k / n) for r < n, the highest first.
RECURSIVE FractionLimbs(_, _, _)
FractionLimbs(r, n, k) ==
  IF k = 0 THEN <<>>
  ELSE <<(r * Base) \div n>> \o FractionLimbs((r * Base) % n, n, k - 1)

\* r * Base^k modulo n
RECURSIVE Remainder(_, _, _)
Remainder(r, n, k) ==
  IF k = 0 THEN r ELSE Remainder((r * Base) % n, n, k - 1)

Reverse(s) == [i \in 1..Len(s) |-> s[Len(s) + 1 - i]]

\* count / totalEntries, of two positive integers.
Divide(count, total) ==
  RoundToNumber(Normal(Reverse(FractionLimbs(count % total, total,
                                             DivisionLimbs))
                       \o LimbsOf(count \div total)),
                -(Limb * DivisionLimbs),
                Remainder(count % total, total, DivisionLimbs) # 0)

\* x * 100
TimesHundred(x) == RoundToNumber(Times(x.m, 100), x.e, FALSE)

\* (count / totalEntries) * 100
Percentage(count, total) == TimesHundred(Divide(count, total))

\* CountCodes with the codes compared in lower case.
RECURSIVE CountCodesIgnoringCase(_, _)
CountCodesIgnoringCase(counts, codes) ==
  IF codes = <<>> THEN counts
  ELSE LET code == toLowerCase(Head(codes))
           at == {i \in 1..Len(counts) : counts[i].languageCode = code}
       IN  CountCodesIgnoringCase(
             IF at = {}
             THEN Append(counts, [languageCode |-> code, count |-> 1])
             ELSE [counts EXCEPT ![Least(at)].count = @ + 1],
             Tail(codes))

\* The forEach that fills a Map from language code to count: a new code is
\* added after those the Map has, a known one keeps its place.
RECURSIVE CountCodes(_, _)
CountCodes(counts, codes) ==
  IF codes = <<>> THEN counts
  ELSE LET code == Head(codes)
           at == {i \in 1..Len(counts) : counts[i].languageCode = code}
       IN  CountCodes(
             IF at = {}
             THEN Append(counts, [languageCode |-> code, count |-> 1])
             ELSE [counts EXCEPT ![Least(at)].count = @ + 1],
             Tail(codes))

\* Array.prototype.sort with (a, b) => b.count - a.count: stable, the larger
\* count first.
RECURSIVE InsertByCount(_, _)
InsertByCount(sorted, x) ==
  IF sorted = <<>> THEN <<x>>
  ELSE IF Head(sorted).count - x.count < 0
       THEN <<x>> \o sorted
       ELSE <<Head(sorted)>> \o InsertByCount(Tail(sorted), x)

RECURSIVE SortByCount(_, _)
SortByCount(done, rest) ==
  IF rest = <<>> THEN done
  ELSE SortByCount(InsertByCount(done, Head(rest)), Tail(rest))

\* Array.from(map.entries()).map(...).sort(...)
LanguageStats(codes, totalEntries) ==
  LET counts == CountCodes(<<>>, codes)
  IN  SortByCount(<<>>,
        [i \in 1..Len(counts) |->
           [languageCode |-> counts[i].languageCode,
            count |-> counts[i].count,
            percentage |-> Percentage(counts[i].count, totalEntries)]])

\* getLanguageAnalysis reading the storage itself, outside any try.
getLanguageAnalysisUnguarded(store, readFails) ==
  LET entries == Persisted(store)
  IN  IF readFails THEN [threw |-> TRUE, value |-> NoAnalysis]
      ELSE [threw |-> FALSE,
            value |->
              [sourceLanguages |->
                 LanguageStats([i \in 1..Len(entries) |->
                                  entries[i].translation.source_language_code],
                               Len(entries)),
               targetLanguages |->
                 LanguageStats([i \in 1..Len(entries) |->
                                  entries[i].translation
                                            .translated_language_code],
                               Len(entries)),
               totalEntries |-> Len(entries)]]

\* getLanguageAnalysis, after its getHistory; whatever is raised inside is
\* caught and answered with the empty analysis.
getLanguageAnalysis(store, readFails) ==
  LET got == getHistory(store, readFails)
      entries == got.value
      totalEntries == Len(entries)
  IN  IF got.threw \/ totalEntries = 0
      THEN [threw |-> FALSE, value |-> NoAnalysis]
      ELSE [threw |-> FALSE,
            value |->
              [sourceLanguages |->
                 LanguageStats([i \in 1..Len(entries) |->
                                  entries[i].translation.source_language_code],
                               totalEntries),
               targetLanguages |->
                 LanguageStats([i \in 1..Len(entries) |->
                                  entries[i].translation
                                            .translated_language_code],
                               totalEntries),
               totalEntries |-> totalEntries]]

\* analyze(): one storage read, no write. Like a load, it keeps the record
\* of the call before it and adds its own outcome.
Analyze(c, rf) ==
  LET out == getLanguageAnalysis(storage, rf)
  IN  /\ ctx[c].pc = "idle"
      /\ ops < MaxOps
      /\ ops' = ops + 1
      /\ ev' = [ev EXCEPT !.loaded = FALSE, !.prev = ev.step,
                          !.step = "analyze", !.lfail = rf,
                          !.threw = out.threw, !.result = <<>>,
                          !.analysis = out.value]
      /\ UNCHANGED <<storage, ctx, now, nextId, screen, hook>>

\* ------------------------------------------------- analysing a stored
\* collection

\* Entries as earlier saves leave them: a code seen twice, one seen in two
\* letter cases, ties between counts.
AnalysedEntries ==
  { HistoryEntry(1, 1, Unpinned, SearchTranslation("en", "vi")),
    HistoryEntry(2, 2, Unpinned, SearchTranslation("en", "vi")),
    HistoryEntry(3, 3, Unpinned, SearchTranslation("fr", "vi")),
    HistoryEntry(4, 4, Unpinned, SearchTranslation("EN", "en")),
    HistoryEntry(5, 5, Unpinned, SearchTranslation("fr", "zh-TW")) }

AnalysedStores ==
  {AbsentKey} \cup
  {[has |-> TRUE, val |-> Stored(S)] : S \in SUBSET AnalysedEntries}

AnalysisInit ==
  /\ storage \in AnalysedStores
  /\ now = 5
  /\ nextId = 6
  /\ ctx = [c \in Contexts |-> Idle]
  /\ ops = 0
  /\ screen = Unmounted
  /\ hook = NoResult
  /\ ev = NoEvent

AnalysisNext == \E c \in Callers, rf \in BOOLEAN : Analyze(c, rf)

AnalysisSpec == AnalysisInit /\ [][AnalysisNext]_vars

\* ------------------------------------------------- extractSearchableFields

\* An optional property of an object: left out, or there with a value.
Absent(empty) == [has |-> FALSE, val |-> empty]
Present(value) == [has |-> TRUE, val |-> value]

\* if (example.pronunciation): the property is there and not "".
Truthy(string) == string.has /\ string.val # ""

\* "word" in translation, "text" in translation
isDictionaryEntry(translation) == "word" \in DOMAIN translation
isSentenceTranslation(translation) == "text" \in DOMAIN translation

\* What the three forEach over examples push for one example.
ExampleFields(example) ==
  <<example.text>>
    \o (IF Truthy(example.pronunciation)
        THEN <<example.pronunciation.val>> ELSE <<>>)
    \o (IF Truthy(example.translation)
        THEN <<example.translation.val>> ELSE <<>>)

\* The sequences of a sequence, one after the other.
RECURSIVE Flatten(_)
Flatten(seqs) ==
  IF seqs = <<>> THEN <<>> ELSE Head(seqs) \o Flatten(Tail(seqs))

ExamplesFields(examples) ==
  Flatten([i \in 1..Len(examples) |-> ExampleFields(examples[i])])

\* meaning.pronunciation: a string (kind "string", text), or an object of
\* variants (kind "variants"), its values in the order of its keys; a
\* variant that is not there or has no ipa gives nothing.
PronunciationFields(pronunciation) ==
  IF pronunciation.kind = "string" THEN <<pronunciation.text>>
  ELSE Flatten([i \in 1..Len(pronunciation.variants) |->
                  IF pronunciation.variants[i].has
                  THEN pronunciation.variants[i].val.ipa ELSE <<>>])

\* meaning.idioms.items.forEach without the forEach over the examples.
IdiomsFieldsShallow(idioms) ==
  IF idioms.has
  THEN Flatten([i \in 1..Len(idioms.val.items) |->
                  <<idioms.val.items[i].idiom, idioms.val.items[i].meaning>>])
  ELSE <<>>

\* if (meaning.idioms) meaning.idioms.items.forEach(...)
IdiomsFields(idioms) ==
  IF idioms.has
  THEN Flatten([i \in 1..Len(idioms.val.items) |->
                  <<idioms.val.items[i].idiom, idioms.val.items[i].meaning>>
                    \o ExamplesFields(idioms.val.items[i].examples)])
  ELSE <<>>

\* if (meaning.phrasal_verbs) meaning.phrasal_verbs.items.forEach(...)
PhrasalVerbsFields(phrasal_verbs) ==
  IF phrasal_verbs.has
  THEN Flatten([i \in 1..Len(phrasal_verbs.val.items) |->
                  <<phrasal_verbs.val.items[i].phrasal_verb,
                    phrasal_verbs.val.items[i].meaning>>
                    \o ExamplesFields(phrasal_verbs.val.items[i].examples)])
  ELSE <<>>

\* The body of translation.meanings.forEach.
MeaningFields(meaning) ==
  <<meaning.definition>>
    \o PronunciationFields(meaning.pronunciation)
    \o ExamplesFields(meaning.examples)
    \o (IF meaning.synonyms.has THEN meaning.synonyms.val.items ELSE <<>>)
    \o IdiomsFields(meaning.idioms)
    \o PhrasalVerbsFields(meaning.phrasal_verbs)

\* extractSearchableFields that leaves the translation of a sentence out.
extractSearchableFieldsOfSource(entry) ==
  LET translation == entry.translation
  IN  IF isDictionaryEntry(translation)
      THEN <<translation.word>>
             \o (IF translation.verb_forms.has
                 THEN translation.verb_forms.val ELSE <<>>)
             \o Flatten([i \in 1..Len(translation.meanings) |->
                           MeaningFields(translation.meanings[i])])
      ELSE IF isSentenceTranslation(translation)
      THEN <<translation.text>>
      ELSE <<>>

extractSearchableFields(entry) ==
  LET translation == entry.translation
  IN  IF isDictionaryEntry(translation)
      THEN <<translation.word>>
             \o (IF translation.verb_forms.has
                 THEN translation.verb_forms.val ELSE <<>>)
             \o Flatten([i \in 1..Len(translation.meanings) |->
                           MeaningFields(translation.meanings[i])])
      ELSE IF isSentenceTranslation(translation)
      THEN <<translation.text, translation.translation>>
      ELSE <<>>

\* getFn of the Fuse key searchableText, called for the entry of that id
\* when a search with text goes through the stored entries.
Extract(c, id) ==
  /\ ctx[c].pc = "idle"
  /\ ops < MaxOps
  /\ ops' = ops + 1
  /\ \E i \in 1..Len(Persisted(storage)) :
       /\ Persisted(storage)[i].id = id
       /\ ev' = [NoEvent EXCEPT
                   !.op = "search", !.step = "extract",
                   !.arg = Arg(NoTranslation, id), !.reads = 1,
                   !.before = Persisted(storage),
                   !.fields = extractSearchableFields(Persisted(storage)[i])]
  /\ UNCHANGED <<storage, ctx, now, nextId, screen, hook>>

\* ------------------------------------------------- dictionary entries

Example(text, pronunciation, translation) ==
  [text |-> text, pronunciation |-> pronunciation,
   translation |-> translation]

\* The pronunciation and the translation of an example: left out, empty,
\* or a text.
OptionalStrings(text) == {Absent(""), Present(""), Present(text)}

PronunciationDetail(ipa) == [ipa |-> ipa, tts_code |-> "en-GB"]

Pronunciations ==
  { [kind |-> "string", text |-> "/go/", variants |-> <<>>],
    [kind |-> "variants", text |-> "",
     variants |-> << Present(PronunciationDetail(<<"/gEu/">>)),
                     Present(PronunciationDetail(<<"/gou/", "/gO/">>)) >>],
    [kind |-> "variants", text |-> "",
     variants |-> << Absent(PronunciationDetail(<<>>)),
                     Present(PronunciationDetail(<<"/gou/">>)) >>] }

NoGroup == Absent([label |-> "", items |-> <<>>])

Idioms(example) ==
  Present([label |-> "Idioms",
           items |-> << [idiom |-> "go for it",
                         meaning |-> "co len",
                         examples |-> <<example>>] >>])

PhrasalVerbs ==
  Present([label |-> "Phrasal verbs",
           items |-> << [phrasal_verb |-> "go on", meaning |-> "tiep tuc",
                         examples |->
                           << Example("go on then", Absent(""),
                                      Present("tiep di")) >>],
                        [phrasal_verb |-> "go off", meaning |-> "no",
                         examples |-> <<>>] >>])

Synonyms == Present([label |-> "Synonyms", items |-> <<"move", "travel">>])

SecondMeaning ==
  [pronunciation |-> [kind |-> "string", text |-> "/goU/", variants |-> <<>>],
   part_of_speech |-> "noun", definition |-> "luot",
   examples |-> <<>>, synonyms |-> NoGroup, idioms |-> NoGroup,
   phrasal_verbs |-> NoGroup]

\* The entries of the word "go": with and without verb forms, synonyms and
\* phrasal verbs, with each pronunciation, with one or two meanings, and
\* with an idiom whose example has each kind of pronunciation and
\* translation.
DictionaryEntries ==
  { [word |-> "go", verb_forms |-> forms,
     source_language_code |-> "en", translated_language_code |-> "vi",
     meanings |->
       << [pronunciation |-> pronunciation, part_of_speech |-> "verb",
           definition |-> "di",
           examples |-> << Example("I go home", Absent(""),
                                   Present("toi ve nha")),
                           Example("wo zou", Present("wo3 zou3"),
                                   Absent("")) >>,
           synonyms |-> synonyms,
           idioms |-> Idioms(Example("just go for it", p, t)),
           phrasal_verbs |-> verbs] >> \o more] :
      forms \in {Absent(<<>>), Present(<<"went", "gone">>)},
      pronunciation \in Pronunciations,
      p \in OptionalStrings("jAst gou"),
      t \in OptionalStrings("cu lam di"),
      synonyms \in {NoGroup, Synonyms},
      verbs \in {NoGroup, PhrasalVerbs},
      more \in {<<>>, <<SecondMeaning>>} }

\* Sentences saved before and after the dictionary entry, pinned or not.
SentenceEntries ==
  {HistoryEntry(1, 1, Unpinned, t) : t \in Translations}
    \cup {HistoryEntry(3, 3, 3, t) : t \in Translations}

\* A dictionary entry and a sentence.
ExtractStores ==
  { [has |-> TRUE,
     val |-> sortHistoryEntries(<<HistoryEntry(2, 2, Unpinned, d), s>>)] :
      d \in DictionaryEntries, s \in SentenceEntries }

ExtractInit ==
  /\ storage \in ExtractStores
  /\ now = 3
  /\ nextId = 4
  /\ ctx = [c \in Contexts |-> Idle]
  /\ ops = 0
  /\ screen = Unmounted
  /\ hook = NoResult
  /\ ev = NoEvent

ExtractNext ==
  \E c \in Callers, id \in Ids(Persisted(storage)) : Extract(c, id)

ExtractSpec == ExtractInit /\ [][ExtractNext]_vars

\* ------------------------------------------ the store, failing storage

\* One call at a time; any storage call may fail.
SeqCallers == IF Free = Contexts THEN Callers ELSE {}

FaultNext ==
  \/ \E c \in SeqCallers, t \in Translations, rf \in BOOLEAN :
       SaveRead(c, t, rf)
  \/ \E c \in SeqCallers, id \in KnownIds, rf \in BOOLEAN :
       RemoveRead(c, id, rf)
  \/ \E c \in SeqCallers \cup Resuming, ids \in IdLists, rf \in BOOLEAN :
       RemoveManyRead(c, ids, rf)
  \/ \E c \in SeqCallers, id \in KnownIds, rf \in BOOLEAN :
       TogglePinRead(c, id, rf)
  \/ \E c \in Contexts, wf \in BOOLEAN : Write(c, wf)
  \/ \E c \in SeqCallers, wf \in BOOLEAN : Clear(c, wf)
  \/ \E c \in SeqCallers, rf \in BOOLEAN : Load(c, rf)
  \/ \E c \in SeqCallers, rf \in BOOLEAN : Analyze(c, rf)

FaultSpec == Init /\ [][FaultNext]_vars

\* ------------------------------------------ the store, with readers

\* What the search box holds when a search runs next to other calls: nothing,
\* an operator, a word.
ReadQueries ==
  { [text |-> "", tokens |-> <<>>, pieces |-> <<>>],
    [text |-> "source:en", tokens |-> <<[key |-> "source", code |-> "en"]>>,
     pieces |-> <<[key |-> "source", code |-> "en"]>>],
    [text |-> "hello", tokens |-> <<>>, pieces |-> <<Word("hello")>>] }

\* The calls of Next, and searches and analyses between their storage steps.
ReadNext ==
  \/ Next
  \/ \E c \in Callers, q \in ReadQueries : Search(c, q, FALSE)
  \/ \E c \in Callers : Analyze(c, FALSE)

ReadSpec == Init /\ [][ReadNext]_vars

\* ----------------------------------------------------------- HistoryScreen

\* Clicks and keystrokes the screen takes.
MaxClicks == 4

\* What the user types into the search box.
ScreenQueries == {"", "source:en", "hello"}

\* Array.from(selectedEntries): the ids of the set, as a list.
ArrayFrom(ids) ==
  CHOOSE l \in [1..Cardinality(ids) -> ids] :
    {l[i] : i \in 1..Len(l)} = ids

\* displayResultedEntry(): searchHistory(debouncedSearchQuery), then
\* setEntries of what it found. The states it can leave the screen in.
displayResultedEntry(s, store) ==
  {[s EXCEPT !.entries = found] :
     found \in searchHistory(getHistory(store, FALSE).value,
                             s.debouncedSearchQuery)}

\* What a handler of the screen leaves behind, for the record: its name and
\* the id it was given; of a bulk delete also what was stored, displayed
\* and selected when it started.
Handled(handler, id) ==
  IF handler = "bulkDelete"
  THEN [NoEvent EXCEPT !.op = handler, !.step = "screen", !.done = TRUE,
                       !.before = Persisted(storage),
                       !.snapshot = screen.entries,
                       !.targets = screen.selectedEntries]
  ELSE [NoEvent EXCEPT !.op = handler, !.step = "screen", !.done = TRUE,
                       !.arg = Arg(NoTranslation, id)]

\* A handler runs from a mounted screen. Its awaits follow one another, and
\* nothing else touches the storage while the popup shows the screen.
Click ==
  /\ screen.mounted
  /\ ops < MaxClicks
  /\ ops' = ops + 1
  /\ UNCHANGED <<ctx, nextId, hook>>

\* The effect on [debouncedSearchQuery], at mount.
Mount ==
  /\ ~screen.mounted
  /\ screen' \in {[s EXCEPT !.mounted = TRUE] :
                    s \in displayResultedEntry(screen, storage)}
  /\ ev' = Handled("mount", 0)
  /\ UNCHANGED <<storage, ctx, now, nextId, ops, hook>>

\* onChange of the search box: setSearchQuery(e.target.value)
SetSearchQuery(q) ==
  /\ Click
  /\ q # screen.searchQuery
  /\ screen' = [screen EXCEPT !.searchQuery = q]
  /\ ev' = Handled("setSearchQuery", 0)
  /\ UNCHANGED <<storage, now>>

\* useDebounce(searchQuery, 300) takes the value of the box, and the effect
\* on [debouncedSearchQuery] runs displayResultedEntry.
Debounce ==
  /\ Click
  /\ screen.debouncedSearchQuery # screen.searchQuery
  /\ screen' \in displayResultedEntry(
                   [screen EXCEPT !.debouncedSearchQuery = screen.searchQuery],
                   storage)
  /\ ev' = Handled("debounce", 0)
  /\ UNCHANGED <<storage, now>>

\* handleToggleSelection(entryId), from the card of a displayed entry.
handleToggleSelection(entryId) ==
  /\ Click
  /\ entryId \in Ids(screen.entries)
  /\ screen' = [screen EXCEPT !.selectedEntries =
                  IF entryId \in @ THEN @ \ {entryId} ELSE @ \cup {entryId}]
  /\ ev' = Handled("toggleSelection", entryId)
  /\ UNCHANGED <<storage, now>>

\* handleSelectAll(), from the bulk actions bar (shown while something is
\* selected).
handleSelectAll ==
  /\ Click
  /\ screen.selectedEntries # {}
  /\ screen' = [screen EXCEPT !.selectedEntries =
                  IF Cardinality(@) = Len(screen.entries) THEN {}
                  ELSE Ids(screen.entries)]
  /\ ev' = Handled("selectAll", 0)
  /\ UNCHANGED <<storage, now>>

\* handleRemoveEntry(entryId), from the card of a displayed entry:
\* removeHistoryEntry, then displayResultedEntry.
handleRemoveEntry(entryId) ==
  LET left == saveHistoryToStorage(
                storage,
                removeHistoryEntry(getHistory(storage, FALSE).value, entryId),
                FALSE).store
  IN  /\ Click
      /\ entryId \in Ids(screen.entries)
      /\ storage' = left
      /\ screen' \in displayResultedEntry(screen, left)
      /\ ev' = Handled("removeEntry", entryId)
      /\ UNCHANGED now

\* handlePinEntry(entryId), from the card of a displayed entry:
\* togglePinEntry, then displayResultedEntry.
handlePinEntry(entryId) ==
  /\ Click
  /\ entryId \in Ids(screen.entries)
  /\ \E timestamp \in Clock :
       LET left == saveHistoryToStorage(
                     storage,
                     togglePinEntry(getHistory(storage, FALSE).value,
                                    entryId, timestamp),
                     FALSE).store
       IN  /\ now' = timestamp
           /\ storage' = left
           /\ screen' \in displayResultedEntry(screen, left)
  /\ ev' = Handled("pinEntry", entryId)

\* handleConfirmClearHistory(): clearHistory, setEntries([]),
\* setSelectedEntries(new Set()).
ConfirmClearHistory(handler) ==
  /\ storage' = clearHistory(storage, FALSE).store
  /\ screen' = [screen EXCEPT !.entries = <<>>, !.selectedEntries = {}]
  /\ ev' = Handled(handler, 0)
  /\ UNCHANGED now

\* The clear-all button (shown while entries are displayed), confirmed.
handleConfirmClearHistory ==
  /\ Click
  /\ screen.entries # <<>>
  /\ ConfirmClearHistory("clearHistory")

\* handleBulkDelete(), confirmed from the bulk actions bar: with as many ids
\* selected as entries are displayed it is handleConfirmClearHistory; else
\* removeHistoryEntries(Array.from(selectedEntries)), the selection emptied
\* and displayResultedEntry.
handleBulkDelete ==
  LET left == saveHistoryToStorage(
                storage,
                removeHistoryEntries(getHistory(storage, FALSE).value,
                                     ArrayFrom(screen.selectedEntries)),
                FALSE).store
  IN  /\ Click
      /\ screen.selectedEntries # {}
      /\ IF Cardinality(screen.selectedEntries) = Len(screen.entries)
         THEN ConfirmClearHistory("bulkDelete")
         ELSE /\ storage' = left
              /\ screen' \in displayResultedEntry(
                               [screen EXCEPT !.selectedEntries = {}], left)
              /\ ev' = Handled("bulkDelete", 0)
              /\ UNCHANGED now

\* The screen opens on a stored collection: some of the entries 1 (en), 2
\* (FR) and 3 (en, pinned).
ScreenStores ==
  {s \in SearchStores : 4 \notin Ids(Persisted(s))}

ScreenInit ==
  /\ storage \in ScreenStores
  /\ now = 4
  /\ nextId = 5
  /\ ctx = [c \in Contexts |-> Idle]
  /\ ops = 0
  /\ ev = NoEvent
  /\ screen = Unmounted
  /\ hook = NoResult

ScreenNext ==
  \/ Mount
  \/ \E q \in ScreenQueries : SetSearchQuery(q)
  \/ Debounce
  \/ \E id \in Ids(screen.entries) : handleToggleSelection(id)
  \/ handleSelectAll
  \/ \E id \in Ids(screen.entries) : handleRemoveEntry(id)
  \/ \E id \in Ids(screen.entries) : handlePinEntry(id)
  \/ handleConfirmClearHistory
  \/ handleBulkDelete

ScreenSpec == ScreenInit /\ [][ScreenNext]_vars

\* -------------------------------------------------------- StatisticsScreen

\* The rows of the tab the statistics screen shows.
LanguageRows(analysis, activeTab) ==
  IF activeTab = "source" THEN analysis.sourceLanguages
  ELSE analysis.targetLanguages

\* handleLanguageClick(languageCode) on row i of the active tab, the rows
\* being those of the analysis that ran last: the query
\* `${activeTab}:${languageCode}` goes to the history screen, which puts it
\* into its search box at mount and displays what searchHistory finds.
handleLanguageClick(c, activeTab, i) ==
  LET rows == LanguageRows(ev.analysis, activeTab)
      searchQuery == activeTab \o ":" \o rows[i].languageCode
  IN  /\ ctx[c].pc = "idle"
      /\ ev.step = "analyze"
      /\ ops < MaxOps
      /\ ops' = ops + 1
      /\ i \in 1..Len(rows)
      /\ screen' \in displayResultedEntry(
                       [Unmounted EXCEPT !.mounted = TRUE,
                                         !.searchQuery = searchQuery,
                                         !.debouncedSearchQuery = searchQuery],
                       storage)
      /\ ev' = [ev EXCEPT !.prev = ev.step, !.step = "languageClick",
                          !.query = searchQuery,
                          !.tokens = <<[key |-> activeTab,
                                        code |-> rows[i].languageCode]>>,
                          !.reads = rows[i].count]
      /\ UNCHANGED <<storage, ctx, now, nextId, hook>>

\* The statistics screen analyses what is stored; a row is clicked.
StatisticsNext ==
  \/ \E c \in Callers, rf \in BOOLEAN : Analyze(c, rf)
  \/ \E c \in Callers, activeTab \in {"source", "target"},
          i \in 1..Len(Persisted(storage)) :
       handleLanguageClick(c, activeTab, i)

StatisticsSpec == AnalysisInit /\ [][StatisticsNext]_vars

\* ----------------------------------------------------------- useTranslation

\* What translateWithGemini and parseTranslationJSON throw: an AppException
\* with its code, or another Error.
Thrown == {"TEXT_TOO_LONG", "Error"}

\* The texts the content script sends for translation.
Texts == {"hello", "bonjour"}

\* translateText(text), up to its first await: text and loading are set,
\* translation and error are kept (...prev).
translateText(text, retried) ==
  /\ hook.pc = "idle"
  /\ ops < MaxOps
  /\ ops' = ops + 1
  /\ hook' = [hook EXCEPT !.text = text, !.loading = TRUE,
                          !.pc = "translating"]
  /\ ev' = [NoEvent EXCEPT !.op = "translateText", !.step = "start",
                           !.rep = retried]
  /\ UNCHANGED <<storage, ctx, now, nextId, screen>>

\* The message TRANSLATE_TEXT from the content script.
handleMessage(text) == translateText(text, FALSE)

\* The retry button of the error view: if (result.text)
\* translateText(result.text).
Retry ==
  /\ hook.error.has
  /\ hook.text # ""
  /\ translateText(hook.text, TRUE)

\* The catch of translateText: loading is unset and error is set, to the
\* AppException thrown or to a GENERAL_ERROR made of another Error.
Catch(thrown) ==
  /\ hook.pc = "translating"
  /\ hook' = [hook EXCEPT
                !.loading = FALSE,
                !.error = [has |-> TRUE,
                           code |-> IF thrown = "Error" THEN "GENERAL_ERROR"
                                    ELSE thrown],
                !.pc = "idle"]
  /\ ev' = [ev EXCEPT !.step = "catch", !.fail = TRUE, !.done = TRUE]
  /\ UNCHANGED <<storage, ctx, now, nextId, ops, screen>>

\* The response was parsed: the text is put into the translation, and
\* setResult sets translation and unsets loading (...prev keeps the rest).
SetResult(parsed) ==
  LET parsedTranslation ==
        IF isDictionaryEntry(parsed) THEN [parsed EXCEPT !.word = hook.text]
        ELSE IF isSentenceTranslation(parsed)
             THEN [parsed EXCEPT !.text = hook.text]
        ELSE parsed
  IN  /\ hook.pc = "translating"
      /\ hook' = [hook EXCEPT
                    !.translation = [has |-> TRUE, val |-> parsedTranslation],
                    !.loading = FALSE,
                    !.pc = "saving"]
      /\ ev' = [ev EXCEPT !.step = "setResult",
                          !.arg = Arg(parsedTranslation, 0)]
      /\ UNCHANGED <<storage, ctx, now, nextId, ops, screen>>

\* await saveTranslation(parsedTranslation), with which translateText
\* completes; nothing else touches the storage meanwhile.
SaveToHistory ==
  /\ hook.pc = "saving"
  /\ \E timestamp \in Clock :
       /\ now' = timestamp
       /\ storage' =
            saveHistoryToStorage(
              storage,
              saveTranslation(getHistory(storage, FALSE).value, nextId,
                              timestamp, hook.translation.val),
              FALSE).store
       /\ ev' = [ev EXCEPT !.step = "translated", !.done = TRUE,
                           !.before = Persisted(storage),
                           !.newId = nextId, !.ts = timestamp]
  /\ nextId' = nextId + 1
  /\ hook' = [hook EXCEPT !.pc = "idle"]
  /\ UNCHANGED <<ctx, ops, screen>>

HookNext ==
  \/ \E text \in Texts : handleMessage(text)
  \/ Retry
  \/ \E thrown \in Thrown : Catch(thrown)
  \/ \E parsed \in Translations : SetResult(parsed)
  \/ SaveToHistory

HookSpec == Init /\ [][HookNext]_vars

\* ------------------------------------------------------------- the claims

Range(seq) == {seq[i] : i \in 1..Len(seq)}

\* Pinned entries first, by pin time ascending; then the unpinned ones, by
\* creation time descending.
Sorted(entries) ==
  \A i, j \in 1..Len(entries) :
    i < j =>
      LET a == entries[i]
          b == entries[j]
      IN  /\ b.pinnedAt # Unpinned => a.pinnedAt # Unpinned
          /\ (a.pinnedAt # Unpinned /\ b.pinnedAt # Unpinned)
               => a.pinnedAt <= b.pinnedAt
          /\ (a.pinnedAt = Unpinned /\ b.pinnedAt = Unpinned)
               => a.timestamp >= b.timestamp

\* C1: whatever calls ran and however their steps interleaved, the persisted
\* collection is sorted: pinned before unpinned, pins by pinnedAt ascending,
\* the rest by timestamp descending.
C1_PersistedSorted == Sorted(Persisted(storage))

\* A togglePin whose snapshot was stale wrote a collection with a pinned and
\* an unpinned entry.
C1_Witness ==
  /\ ev.step = "write" /\ ev.op = "togglePin" /\ ev.dirty
  /\ \E e \in Range(Persisted(storage)) : e.pinnedAt # Unpinned
  /\ \E e \in Range(Persisted(storage)) : e.pinnedAt = Unpinned

\* A load that ran right after a save that ran alone, no storage call failing.
SavedThenLoaded ==
  /\ ev.loaded /\ ev.prev = "write" /\ ~ev.lfail
  /\ ev.op = "save" /\ ev.done /\ Clean(ev)

\* C2: save(t) then load(): the result holds every entry stored before the
\* save, unchanged, and exactly one more; that one carries t, is unpinned and
\* has an id no entry stored before had.
C2_SaveThenLoad ==
  SavedThenLoaded =>
    LET new == {i \in 1..Len(ev.result) : ev.result[i] \notin Range(ev.before)}
    IN  /\ Range(ev.before) \subseteq Range(ev.result)
        /\ Len(ev.result) = Len(ev.before) + 1
        /\ Cardinality(new) = 1
        /\ \A i \in new :
             /\ ev.result[i].translation = ev.arg.t
             /\ ev.result[i].pinnedAt = Unpinned
             /\ ev.result[i].id \notin Ids(ev.before)

C2_Witness == SavedThenLoaded /\ Len(ev.before) >= 2

\* C3: a mutation whose storage read failed leaves the persisted collection
\* as it was when the call started, and raises nothing.
C3_ReadFailureIsNoOp ==
  (ev.step = "write" /\ ev.rfail) =>
    ~ev.threw /\ Persisted(storage) = ev.before

\* C4: a mutation (or clear) whose storage write failed completes, raises
\* nothing and leaves the persisted collection as it was.
C4_WriteFailureIsNoOp ==
  (ev.step \in {"write", "clear"} /\ ev.fail) =>
    ev.done /\ ~ev.threw /\ Persisted(storage) = ev.before

C4_Witness ==
  ev.step \in {"write", "clear"} /\ ev.fail /\ ev.before # <<>>

\* A list naming the ids of a set.
AsList(ids) ==
  CHOOSE l \in [1..Cardinality(ids) -> ids] : Range(l) = ids

\* What a call computes from the entries it read.
Outcome(e) ==
  CASE e.op = "save" ->
         saveTranslation(e.snapshot, e.newId, e.ts, e.arg.t)
    [] e.op = "remove" -> removeHistoryEntry(e.snapshot, e.arg.id)
    [] e.op = "removeMany" ->
         removeHistoryEntries(e.snapshot, AsList(e.targets))
    [] e.op = "togglePin" -> togglePinEntry(e.snapshot, e.arg.id, e.ts)

\* C5: when another context wrote between a call's read and its write, the
\* call's write wins: what is persisted is what the call computed from the
\* entries it had read, sorted, no entry the other writes saved is in it,
\* and nothing is raised.
C5_LaterWriteWins ==
  (ev.step = "write" /\ ev.dirty) =>
    /\ Persisted(storage) = sortHistoryEntries(Outcome(ev))
    /\ ev.missed \cap Ids(Persisted(storage)) = {}
    /\ ~ev.threw

C5_Witness == ev.step = "write" /\ ev.dirty /\ ev.missed # {}

\* C6: a remove(id) that runs alone right after the same remove(id), and a
\* remove of an id that is not stored, leave the persisted collection as it
\* was.
C6_RemoveIdempotent ==
  (ev.step = "write" /\ ev.op = "remove" /\ Clean(ev)) =>
    /\ ev.rep => Persisted(storage) = ev.before
    /\ ev.arg.id \notin Ids(ev.before) => Persisted(storage) = ev.before

C6_Witness ==
  /\ ev.step = "write" /\ ev.op = "remove" /\ Clean(ev)
  /\ ev.rep /\ ev.arg.id # 0 /\ ev.before # <<>>

\* C7: removeMany(ids) run alone leaves what single remove(id) calls for the
\* ids of the list leave, whatever the order of the calls.
C7_RemoveManyAsSingles ==
  (ev.step = "write" /\ ev.op = "removeMany" /\ ev.done /\ Clean(ev)) =>
    ev.seq = {Persisted(storage)}

C7_Witness ==
  /\ ev.step = "write" /\ ev.op = "removeMany" /\ ev.done /\ Clean(ev)
  /\ Cardinality(ev.targets \cap Ids(ev.before)) >= 2

\* C8: a removeMany call makes one storage read and one storage write, and
\* its write leaves none of the ids it names in the persisted collection.
C8_RemoveManyOneWrite ==
  /\ \A c \in Contexts :
       ctx[c].op = "removeMany" => ctx[c].reads = 1 /\ ctx[c].writes = 0
  /\ (ev.op = "removeMany" /\ ev.step = "read") =>
       ev.reads = 1 /\ ev.writes = 0
  /\ (ev.op = "removeMany" /\ ev.step = "write") =>
       /\ ev.done /\ ev.reads = 1 /\ ev.writes = 1
       /\ ev.targets \cap Ids(Persisted(storage)) = {}

C8_Witness ==
  /\ ev.op = "removeMany" /\ ev.step = "write" /\ ev.dirty
  /\ Cardinality(ev.targets \cap Ids(ev.before)) >= 2

\* C9: load() raises nothing, and returns the empty sequence when the key is
\* absent and when the storage read fails.
C9_LoadEmptyOnFailure ==
  ev.loaded =>
    /\ ~ev.threw
    /\ (ev.lfail \/ ~storage.has) => ev.result = <<>>

C9_Witness == ev.loaded /\ ev.lfail /\ Persisted(storage) # <<>>

\* Two language codes that differ in letter case at most.
SameCode(a, b) ==
  /\ Len(a) = Len(b)
  /\ \A i \in 1..Len(a) : LowerChar(Char(a, i)) = LowerChar(Char(b, i))

\* The entry has the language code the operator token asks for.
Satisfies(entry, token) ==
  IF SameCode(token.key, "source")
  THEN SameCode(entry.translation.source_language_code, token.code)
  ELSE SameCode(entry.translation.translated_language_code, token.code)

\* A search whose query was made of operator tokens only, its read done.
OperatorSearch ==
  ev.step = "search" /\ ev.tokens # <<>> /\ ~ev.lfail

\* C10: a search whose query is made of source:/target: operators only
\* returns the persisted entries whose language codes equal, letter case
\* apart, the value of every operator, in the order they are stored, and
\* raises nothing; when no entry matches, the result is empty.
C10_OperatorSearch ==
  OperatorSearch =>
    /\ ~ev.threw
    /\ ev.result =
         SelectSeq(ev.before,
                   LAMBDA e : \A k \in 1..Len(ev.tokens) :
                                Satisfies(e, ev.tokens[k]))

\* Two of at least three stored entries are returned, one of them with its
\* code stored in another letter case than the operator's.
C10_Witness ==
  /\ OperatorSearch
  /\ Len(ev.result) >= 2 /\ Len(ev.result) < Len(ev.before)
  /\ \E e \in Range(ev.result), k \in 1..Len(ev.tokens) :
       /\ SameCode(ev.tokens[k].key, "source")
       /\ e.translation.source_language_code # ev.tokens[k].code

\* A search whose read succeeded.
Searched == ev.step = "search" /\ ~ev.lfail

\* C11: a search whose query is empty or made of white space only returns
\* the whole persisted collection, in stored order.
C11_BlankQueryReturnsAll ==
  (Searched /\ \A i \in 1..Len(ev.query) : Char(ev.query, i) \in {" ", "\t"})
    => ~ev.threw /\ ev.result = ev.before

\* A query of white space searched over four stored entries, one pinned.
C11_Witness ==
  /\ Searched /\ ev.query = "\t " /\ Len(ev.result) = 4
  /\ \E e \in Range(ev.before) : e.pinnedAt # Unpinned

\* The operators the tokens of a query stand for, in the order written.
ExpectedOperators(pieces) ==
  LET tokens == SelectSeq(pieces, LAMBDA p : p.key # "")
  IN  [k \in 1..Len(tokens) |->
         [type |-> toLowerCase(tokens[k].key),
          value |-> toLowerCase(tokens[k].code)]]

\* The text of a query with every token cut out where it stands, and no
\* white space left at its ends.
RECURSIVE JoinWords(_)
JoinWords(pieces) ==
  LET word == IF pieces[1].key = "" THEN pieces[1].code ELSE ""
  IN  IF Len(pieces) = 1 THEN word
      ELSE word \o " " \o JoinWords(Tail(pieces))

ExpectedResidual(pieces) ==
  LET words == {k \in 1..Len(pieces) : pieces[k].key = ""}
  IN  IF words = {} THEN ""
      ELSE JoinWords(SubSeq(pieces, Least(words), Greatest(words)))

\* C12: parse returns one operator per source:/target: token of the query,
\* type and code lowercased, duplicates kept, in the order written, and as
\* residual text the query with every token removed, trimmed; words that
\* look like operators of another type stay in the residual text.
C12_ParseSplitsQuery ==
  (ev.step = "search" /\ ev.parsed.called) =>
    /\ ev.parsed.operators = ExpectedOperators(ev.pieces)
    /\ ev.parsed.remainingText = ExpectedResidual(ev.pieces)

\* Two operator tokens of one type that ask for different codes.
Conflicting(tokens) ==
  \E i, j \in 1..Len(tokens) :
    /\ SameCode(tokens[i].key, tokens[j].key)
    /\ ~SameCode(tokens[i].code, tokens[j].code)

\* C13: operators of one type are not merged: a query with two operators of
\* one type and different values returns nothing, whatever is stored, and
\* every entry a query of operators returns satisfies all of them.
C13_OperatorsAllHold ==
  OperatorSearch =>
    /\ Conflicting(ev.tokens) => ev.result = <<>>
    /\ \A e \in Range(ev.result), k \in 1..Len(ev.tokens) :
         Satisfies(e, ev.tokens[k])

\* source:en and SOURCE:FR searched over a collection that holds entries of
\* both codes.
C13_Witness ==
  /\ OperatorSearch /\ Conflicting(ev.tokens) /\ Len(ev.before) = 4
  /\ \A k \in 1..Len(ev.tokens) :
       \E e \in Range(ev.before) : Satisfies(e, ev.tokens[k])

SourceCodes(entries) ==
  [i \in 1..Len(entries) |-> entries[i].translation.source_language_code]

TargetCodes(entries) ==
  [i \in 1..Len(entries) |-> entries[i].translation.translated_language_code]

\* An analyze whose read succeeded, of a collection with entries.
Analysed ==
  ev.step = "analyze" /\ ~ev.lfail /\ Persisted(storage) # <<>>

RECURSIVE SumCounts(_)
SumCounts(rows) ==
  IF rows = <<>> THEN 0 ELSE Head(rows).count + SumCounts(Tail(rows))

\* One row per distinct code, spelled as stored, with the number of entries
\* that carry it; the counts add up to the number of entries; the larger
\* count first.
CountsOf(rows, codes) ==
  /\ \A i, j \in 1..Len(rows) :
       i # j => rows[i].languageCode # rows[j].languageCode
  /\ {rows[i].languageCode : i \in 1..Len(rows)} = Range(codes)
  /\ \A i \in 1..Len(rows) :
       rows[i].count =
         Cardinality({k \in 1..Len(codes) : codes[k] = rows[i].languageCode})
  /\ SumCounts(rows) = Len(codes)
  /\ \A i, j \in 1..Len(rows) : i < j => rows[i].count >= rows[j].count

\* The natural number n, in units of 2^e (e <= 0).
Scaled(n, e) == ShiftLeft(LimbsOf(n), -e)

\* The percentages of the rows added up as real numbers, in units of 2^e.
RECURSIVE SumPercentages(_, _)
SumPercentages(rows, e) ==
  IF rows = <<>> THEN <<>>
  ELSE Plus(ShiftLeft(Head(rows).percentage.m, Head(rows).percentage.e - e),
            SumPercentages(Tail(rows), e))

LowestExponent(rows) == Least({rows[i].percentage.e : i \in 1..Len(rows)})

\* Each percentage times totalEntries is count times 100, and the
\* percentages add up to 100, as real numbers.
ExactPercentages(rows, totalEntries) ==
  /\ \A i \in 1..Len(rows) :
       Times(rows[i].percentage.m, totalEntries)
         = Scaled(100 * rows[i].count, rows[i].percentage.e)
  /\ SumPercentages(rows, LowestExponent(rows))
       = Scaled(100, LowestExponent(rows))

\* a and b differ by tolerance at most.
Near(a, b, tolerance) ==
  ~Less(Plus(a, tolerance), b) /\ ~Less(Plus(b, tolerance), a)

\* The same up to rounding: within totalEntries * 2^-40 and 2^-40.
RoundedPercentages(rows, totalEntries) ==
  /\ \A i \in 1..Len(rows) :
       Near(Times(rows[i].percentage.m, totalEntries),
            Scaled(100 * rows[i].count, rows[i].percentage.e),
            Scaled(totalEntries, rows[i].percentage.e + 40))
  /\ Near(SumPercentages(rows, LowestExponent(rows)),
          Scaled(100, LowestExponent(rows)),
          Scaled(1, LowestExponent(rows) + 40))

\* C14, as stated: analyze() over a non-empty store returns totalEntries
\* equal to the number of persisted entries and, in each breakdown, one row
\* per distinct code (compared as stored) with the number of entries that
\* carry it; the counts add up to totalEntries, each percentage is
\* count / totalEntries * 100, the percentages add up to 100, and the rows
\* are in non-increasing order of count.
C14_Breakdowns ==
  LET entries == Persisted(storage)
  IN  Analysed =>
        /\ ~ev.threw
        /\ ev.analysis.totalEntries = Len(entries)
        /\ CountsOf(ev.analysis.sourceLanguages, SourceCodes(entries))
        /\ CountsOf(ev.analysis.targetLanguages, TargetCodes(entries))
        /\ ExactPercentages(ev.analysis.sourceLanguages, Len(entries))
        /\ ExactPercentages(ev.analysis.targetLanguages, Len(entries))

\* C14, amended: the same, with each percentage equal to
\* count / totalEntries * 100 up to the rounding of Number arithmetic, and
\* the percentages of a breakdown adding up to 100 up to that rounding.
C14_BreakdownsRounded ==
  LET entries == Persisted(storage)
  IN  Analysed =>
        /\ ~ev.threw
        /\ ev.analysis.totalEntries = Len(entries)
        /\ CountsOf(ev.analysis.sourceLanguages, SourceCodes(entries))
        /\ CountsOf(ev.analysis.targetLanguages, TargetCodes(entries))
        /\ RoundedPercentages(ev.analysis.sourceLanguages, Len(entries))
        /\ RoundedPercentages(ev.analysis.targetLanguages, Len(entries))

\* Three entries, two with source code en and one with EN: two rows, and
\* percentages that do not add up to 100 exactly.
C14_Witness ==
  /\ Analysed
  /\ Len(Persisted(storage)) = 3
  /\ {ev.analysis.sourceLanguages[i].languageCode :
        i \in 1..Len(ev.analysis.sourceLanguages)} = {"en", "EN"}
  /\ ev.analysis.sourceLanguages[1].count = 2
  /\ ~ExactPercentages(ev.analysis.sourceLanguages, 3)

\* An analyze that found no entry: the key was absent, the collection
\* empty, or the read failed.
AnalysedNothing ==
  ev.step = "analyze" /\ (ev.lfail \/ Persisted(storage) = <<>>)

\* C15: analyze() on a store with zero entries (key absent, empty
\* collection, or failed read) returns totalEntries 0 with both breakdowns
\* empty, and raises nothing.
C15_AnalyzeNothing ==
  AnalysedNothing =>
    /\ ~ev.threw
    /\ ev.analysis.totalEntries = 0
    /\ ev.analysis.sourceLanguages = <<>>
    /\ ev.analysis.targetLanguages = <<>>

\* The read of a collection with entries failed.
C15_Witness ==
  ev.step = "analyze" /\ ev.lfail /\ Len(Persisted(storage)) = 5

\* C16: search and analyze are read-only: whatever the query and the store,
\* and whatever other calls are under way, a search or an analyze step
\* leaves the storage as it was, and with it everything the mutations under
\* way go by (what they read, the clock, the next id), so that the persisted
\* collection ends up as the mutations alone make it.
C16_ReadsWriteNothing ==
  [][ev'.step \in {"search", "analyze"} =>
       /\ storage' = storage
       /\ ctx' = ctx
       /\ now' = now
       /\ nextId' = nextId]_vars

\* A search found entries while a mutation was between its read and its
\* write.
C16_Witness ==
  /\ ev.step = "search"
  /\ ev.result # <<>>
  /\ \E c \in Contexts : ctx[c].pc = "write"

\* C17: whatever the interleaving of the calls, with every save drawing a
\* fresh id, no two persisted entries have the same id.
C17_IdsUnique ==
  \A i, j \in 1..Len(Persisted(storage)) :
    i # j => Persisted(storage)[i].id # Persisted(storage)[j].id

\* A save wrote after another context's write had come between its read and
\* its write, and three entries or more are persisted.
C17_Witness ==
  /\ ev.step = "write" /\ ev.op = "save" /\ ev.dirty
  /\ Len(Persisted(storage)) >= 3

\* The write of a togglePin that ran alone, no storage call of it failing.
TogglePinned == ev.step = "write" /\ ev.op = "togglePin" /\ Clean(ev)

\* The entry with its pin flipped: set to the time of the call if it was
\* unset, cleared if it was set.
Flipped(entry, timestamp) ==
  [entry EXCEPT !.pinnedAt = IF @ = Unpinned THEN timestamp ELSE Unpinned]

\* C18: togglePin(id) changes nothing but the pinnedAt of the entry whose id
\* matches, set to the current time if it was unset and cleared if it was
\* set: the stored ids, every other entry, and the id, timestamp and
\* translation of the matching entry are as before; with no stored entry of
\* that id the persisted collection is as before.
C18_TogglePinFrame ==
  TogglePinned =>
    /\ Len(Persisted(storage)) = Len(ev.before)
    /\ Ids(Persisted(storage)) = Ids(ev.before)
    /\ \A e \in Range(ev.before) :
         IF e.id = ev.arg.id
         THEN Flipped(e, ev.ts) \in Range(Persisted(storage))
         ELSE e \in Range(Persisted(storage))
    /\ ev.arg.id \notin Ids(ev.before) => Persisted(storage) = ev.before

\* A pin was cleared, next to another entry.
C18_Witness ==
  /\ TogglePinned
  /\ Len(ev.before) >= 2
  /\ \E e \in Range(ev.before) : e.id = ev.arg.id /\ e.pinnedAt # Unpinned

\* A load or an analyze after a clear whose storage call did not fail, with
\* no mutation since.
ReadAfterClear ==
  ev.op = "clear" /\ ~ev.fail /\ ev.step \in {"load", "analyze"}

\* C19: after a clear() that completed with no other mutation in flight and
\* no storage failure, load() returns the empty sequence and analyze()
\* reports zero entries, whatever the collection held before.
C19_EmptyAfterClear ==
  ReadAfterClear =>
    /\ ~ev.threw
    /\ ev.step = "load" => ev.result = <<>>
    /\ ev.step = "analyze" => ev.analysis = NoAnalysis

\* An analyze right after a clear of two entries.
C19_Witness ==
  ReadAfterClear /\ ev.step = "analyze" /\ ~ev.lfail /\ Len(ev.before) = 2

\* The fields of an entry were extracted, and it is a dictionary entry.
Extracted ==
  /\ ev.step = "extract"
  /\ \E e \in Range(ev.before) :
       e.id = ev.arg.id /\ isDictionaryEntry(e.translation)

ExtractedEntry == CHOOSE e \in Range(ev.before) : e.id = ev.arg.id

\* The pronunciation and the translation of an example that are there,
\* or those of them that are not empty.
OptionalTexts(example, empty) ==
  {s.val : s \in {o \in {example.pronunciation, example.translation} :
                    o.has /\ (empty \/ o.val # "")}}

ExampleTexts(examples, empty) ==
  UNION {{examples[i].text} \cup OptionalTexts(examples[i], empty) :
           i \in 1..Len(examples)}

IdiomTexts(idioms, empty) ==
  IF ~idioms.has THEN {}
  ELSE UNION {{item.idiom, item.meaning}
                \cup ExampleTexts(item.examples, empty) :
              item \in Range(idioms.val.items)}

PhrasalVerbTexts(phrasal_verbs, empty) ==
  IF ~phrasal_verbs.has THEN {}
  ELSE UNION {{item.phrasal_verb, item.meaning}
                \cup ExampleTexts(item.examples, empty) :
              item \in Range(phrasal_verbs.val.items)}

PronunciationTexts(pronunciation) ==
  IF pronunciation.kind = "string" THEN {pronunciation.text}
  ELSE UNION {Range(v.val.ipa) :
                v \in {x \in Range(pronunciation.variants) : x.has}}

\* The strings the dictionary entry holds: the word, the verb forms and,
\* of every meaning, the definition, the pronunciation strings, the texts
\* of the examples, the synonyms, and the expression, the meaning and the
\* examples' texts of every idiom and phrasal verb.
DictionaryTexts(translation, empty) ==
  {translation.word}
    \cup (IF translation.verb_forms.has
          THEN Range(translation.verb_forms.val) ELSE {})
    \cup UNION { {m.definition}
                   \cup PronunciationTexts(m.pronunciation)
                   \cup ExampleTexts(m.examples, empty)
                   \cup (IF m.synonyms.has
                         THEN Range(m.synonyms.val.items) ELSE {})
                   \cup IdiomTexts(m.idioms, empty)
                   \cup PhrasalVerbTexts(m.phrasal_verbs, empty) :
                 m \in Range(translation.meanings) }

\* C20, as stated: for a dictionary entry, the extracted fields contain the
\* word, every verb form and, for every meaning, the definition, every
\* pronunciation string, every example's text, pronunciation and
\* translation, every synonym, and for every idiom and phrasal verb its
\* expression, its meaning and the text, pronunciation and translation of
\* each of its examples.
C20_ExtractsEveryField ==
  Extracted =>
    DictionaryTexts(ExtractedEntry.translation, TRUE)
      \subseteq Range(ev.fields)

\* C20, amended: the same, for the pronunciations and translations of
\* examples that are not the empty string; a string that occurs in the
\* translation of an idiom's example only is among the extracted fields.
C20_ExtractsEveryText ==
  Extracted =>
    DictionaryTexts(ExtractedEntry.translation, FALSE)
      \subseteq Range(ev.fields)

\* The fields of an entry with two meanings, variants of pronunciation and
\* phrasal verbs, among them the translation of its idiom's example, which
\* occurs nowhere else in the entry.
C20_Witness ==
  /\ Extracted
  /\ Len(ExtractedEntry.translation.meanings) = 2
  /\ ExtractedEntry.translation.meanings[1].pronunciation.kind = "variants"
  /\ ExtractedEntry.translation.meanings[1].phrasal_verbs.has
  /\ "cu lam di" \in Range(ev.fields)
  /\ Cardinality({i \in 1..Len(ev.fields) : ev.fields[i] = "cu lam di"}) = 1

\* The fields of an entry were extracted, and it is a sentence.
ExtractedSentence ==
  /\ ev.step = "extract"
  /\ \E e \in Range(ev.before) :
       /\ e.id = ev.arg.id
       /\ isSentenceTranslation(e.translation)
       /\ ~isDictionaryEntry(e.translation)

\* C21: for a sentence translation the extracted fields are exactly the
\* text and the translation, in that order, whatever the id, the timestamp
\* and the pinnedAt of the entry.
C21_SentenceFields ==
  ExtractedSentence =>
    ev.fields = <<ExtractedEntry.translation.text,
                  ExtractedEntry.translation.translation>>

\* The fields of a pinned sentence with another id and timestamp.
C21_Witness ==
  /\ ExtractedSentence
  /\ ExtractedEntry.pinnedAt # Unpinned
  /\ ExtractedEntry.id = 3
  /\ ev.fields = <<"bonjour", "hello">>

\* C22: a confirmed bulk delete removes from the storage the entries whose
\* ids are selected and no others: what is persisted afterwards is what was
\* persisted before without the selected entries, the entries the search
\* filter hides included.
C22_BulkDeleteSelectedOnly ==
  (ev.step = "screen" /\ ev.op = "bulkDelete") =>
    Persisted(storage)
      = SelectSeq(ev.before, LAMBDA e : e.id \notin ev.targets)

\* C30: in every state of the history screen the selected ids are ids of
\* displayed entries.
C30_SelectedAreDisplayed ==
  screen.selectedEntries \subseteq Ids(screen.entries)

\* The stored entries a row of the analysis counts: those carrying the
\* code of the row, as the active tab reads it.
CountedInRow(entries, activeTab, code) ==
  SelectSeq(entries,
            LAMBDA e : code = IF activeTab = "source"
                              THEN e.translation.source_language_code
                              ELSE e.translation.translated_language_code)

\* C23: the query the statistics screen builds for a row of the analysis
\* makes the search return as many entries as the row counts, and they are
\* the entries the row counts.
C23_RowQueryFindsRow ==
  ev.step = "languageClick" =>
    /\ Len(screen.entries) = ev.reads
    /\ screen.entries
         = CountedInRow(Persisted(storage), ev.tokens[1].key,
                        ev.tokens[1].code)

\* The write of a save that ran alone, no storage call of it failing.
Saved == ev.step = "write" /\ ev.op = "save" /\ Clean(ev)

\* How many of the entries are pinned.
PinnedCount(entries) ==
  Cardinality({i \in 1..Len(entries) : entries[i].pinnedAt # Unpinned})

\* C24: after a save at a time not earlier than the creation timestamp of
\* any stored entry, the new entry is the first unpinned entry of the
\* persisted collection, right after the last pinned one (first overall
\* when nothing is pinned).
C24_SavedFirstUnpinned ==
  (Saved /\ \A e \in Range(ev.before) : ev.ts >= e.timestamp) =>
    LET stored == Persisted(storage)
        pinned == PinnedCount(stored)
    IN  /\ Len(stored) > pinned
        /\ stored[pinned + 1].id = ev.newId
        /\ stored[pinned + 1].pinnedAt = Unpinned
        /\ \A i \in 1..pinned : stored[i].pinnedAt # Unpinned

\* A save in the millisecond another unpinned entry was created in, with an
\* entry pinned.
C24_Witness ==
  /\ Saved
  /\ PinnedCount(ev.before) >= 1
  /\ \E e \in Range(ev.before) :
       e.timestamp = ev.ts /\ e.pinnedAt = Unpinned
  /\ Persisted(storage)[PinnedCount(ev.before) + 1].id = ev.newId

\* The entry a togglePin names, as it was persisted before the call.
Toggled == {e \in Range(ev.before) : e.id = ev.arg.id}

\* The places the entry of that id has in a collection.
PlacesOf(entries, id) == {i \in 1..Len(entries) : entries[i].id = id}

\* C25: a togglePin that pins an unpinned entry at a time later than every
\* pin time leaves it after every other pinned entry and before every
\* unpinned one; a togglePin that unpins an entry leaves it among the
\* unpinned entries, where its creation timestamp puts it (no unpinned
\* entry before it is older, none after it is newer).
C25_TogglePinPlace ==
  TogglePinned =>
    \A e \in Toggled :
      LET stored == Persisted(storage)
          pinned == PinnedCount(stored)
      IN  IF e.pinnedAt = Unpinned
          THEN (\A o \in Range(ev.before) : ev.ts > o.pinnedAt) =>
                 /\ PlacesOf(stored, e.id) = {pinned}
                 /\ \A i \in 1..Len(stored) :
                      stored[i].pinnedAt # Unpinned <=> i <= pinned
          ELSE \A i \in PlacesOf(stored, e.id) :
                 /\ i > pinned
                 /\ stored[i].pinnedAt = Unpinned
                 /\ \A j \in (pinned + 1)..Len(stored) :
                      /\ stored[j].pinnedAt = Unpinned
                      /\ j < i => stored[j].timestamp >= e.timestamp
                      /\ j > i => stored[j].timestamp <= e.timestamp

\* An entry was pinned while an older pin and an unpinned entry were stored.
C25_Witness ==
  /\ TogglePinned
  /\ \E e \in Toggled : e.pinnedAt = Unpinned
  /\ \E o \in Range(ev.before) : o.pinnedAt # Unpinned /\ o.pinnedAt < ev.ts
  /\ PinnedCount(Persisted(storage)) = 2
  /\ Len(Persisted(storage)) = 3
  /\ Persisted(storage)[2].id = ev.arg.id

\* The write of a togglePin that ran alone right after the same togglePin,
\* which had found the entry stored and unpinned.
ToggledTwice ==
  /\ TogglePinned /\ ev.rep
  /\ \E e \in Range(ev.origin) : e.id = ev.arg.id /\ e.pinnedAt = Unpinned

\* No two of the entries were created in the same millisecond.
DistinctTimestamps(entries) ==
  \A i, j \in 1..Len(entries) :
    i # j => entries[i].timestamp # entries[j].timestamp

\* C26: two togglePin(id) in succession on a stored, unpinned entry, in a
\* collection of pairwise distinct creation timestamps, restore the
\* persisted collection: the same entries, pinnedAt values and order as
\* before the first call.
C26_TogglePinTwiceRestores ==
  (ToggledTwice /\ DistinctTimestamps(ev.origin)) =>
    Persisted(storage) = ev.origin

\* The second of two entries was pinned, which moved it to the front, and
\* unpinned again.
C26_Witness ==
  /\ ToggledTwice /\ DistinctTimestamps(ev.origin)
  /\ Len(ev.origin) = 2
  /\ ev.origin[2].id = ev.arg.id
  /\ ev.before[1].id = ev.arg.id
  /\ Persisted(storage) = ev.origin

\* A search whose read succeeded and whose query left text after its
\* operators were taken out.
TextSearch ==
  Searched /\ ev.parsed.called /\ ev.parsed.remainingText # ""

\* The operator tokens among the pieces a query was written from.
OperatorPieces(pieces) == {p \in Range(pieces) : p.key # ""}

\* C27: a search whose query has residual text returns persisted entries
\* only, each satisfying every operator of the query, and none of them
\* twice.
C27_TextSearchDropsAndReorders ==
  TextSearch =>
    /\ \A e \in Range(ev.result) :
         /\ e \in Range(ev.before)
         /\ \A p \in OperatorPieces(ev.pieces) : Satisfies(e, p)
    /\ \A i, j \in 1..Len(ev.result) :
         i # j => ev.result[i] # ev.result[j]

\* Of four stored entries two fail the operator of the query; the two
\* returned are not in stored order.
C27_Witness ==
  /\ TextSearch
  /\ OperatorPieces(ev.pieces) # {}
  /\ Len(ev.before) = 4
  /\ \E e \in Range(ev.before), p \in OperatorPieces(ev.pieces) :
       ~Satisfies(e, p)
  /\ Len(ev.result) = 2
  /\ \E i, j \in 1..Len(ev.before) :
       i < j /\ ev.before[j] = ev.result[1] /\ ev.before[i] = ev.result[2]

\* C28: once a clear has completed, no entry that was stored before it is
\* persisted again, whatever the other contexts write next.
C28_ClearedStaysCleared ==
  [][(ev.step = "clear" /\ ~ev.fail) =>
       Ids(Persisted(storage')) \cap Ids(ev.before) = {}]_vars

\* C29: whenever a translateText call completes successfully, the result of
\* the hook has loading unset, translation set to the parsed translation
\* and error unset, also when an earlier call had failed.
C29_TranslatedResult ==
  (ev.op = "translateText" /\ ev.step = "translated") =>
    /\ ~hook.loading
    /\ hook.translation = [has |-> TRUE, val |-> ev.arg.t]
    /\ ~hook.error.has

====
